---- MODULE Spec2Model ----
(***************************************************************************)
(* Model of the phone agent: the agent loop (PhoneAgent.run and its        *)
(* control surface cancel/pause/resume), the action interpreter            *)
(* (ActionHandler.execute and its handlers) and the cost ledger the loop   *)
(* records into.  The loop runs on a worker; the controlling thread calls  *)
(* cancel(), pause() and resume() at any moment, so every control call is  *)
(* an action of its own that interleaves with the loop's segments.         *)
(***************************************************************************)
EXTENDS Integers, Sequences, FiniteSets, TLC

(***************************************************************************)
(* Bounds of the exploration.                                              *)
(***************************************************************************)
\* largest config.max_steps a run is started with
MaxStepsBound == 3

(***************************************************************************)
(* Values of the program.  The program's messages are Chinese; each is    *)
(* written here in English, one fixed rendering per source string.        *)
(***************************************************************************)
\* Python's None
None == "None"

\* the three status strings run() returns on its own
\* "任务已取消"
TaskCancelled == "task cancelled"
\* "达到最大步数限制"
StepLimitReached == "step limit reached"
\* "任务完成"
TaskDone == "task done"
\* "用户手动停止任务"
UserStopped == "stopped by user"

\* ActionType: the action kinds the enum knows
ActionType ==
  {"Tap", "Swipe", "Drag", "Type", "TapAndType", "Launch", "KeyPress", "Back",
   "Home", "Wait", "Long Press", "Double Tap", "finish", "pause"}

\* dict.get(key, default)
Get(d, k, default) == IF k \in DOMAIN d THEN d[k] ELSE default

\* s[:n] on a string
Prefix(s, n) == IF Len(s) <= n THEN s ELSE SubSeq(s, 1, n)

Min(a, b) == IF a < b THEN a ELSE b
Max(a, b) == IF a > b THEN a ELSE b

\* ActionResult(success, should_finish, message), with the device calls the
\* handler issued on the way (in order) and whether it raised instead
ActionResult(s, f, m, calls) ==
  [success |-> s, should_finish |-> f, message |-> m, calls |-> calls, raised |-> FALSE]

\* an exception leaving execute(): no ActionResult exists
Raised(calls) ==
  [success |-> FALSE, should_finish |-> FALSE, message |-> None, calls |-> calls, raised |-> TRUE]

\* a device primitive returns False exactly when the device fails it
Ok(dev, op) == op \notin dev.fail

(***************************************************************************)
(* ActionHandler                                                           *)
(***************************************************************************)
\* the normalized values e for which the double e / 1000 * dim lies just
\* below the whole number e * dim / 1000, on the screen dimensions 720,
\* 1080, 1280, 1440, 1920, 2400 and 2560 (1080, 1280, 1920, 2560 have none)
FloatShort(dim) ==
  IF dim = 2400 THEN {205, 285, 345, 410, 565, 570, 690, 695, 815, 820}
  ELSE IF dim \in {720, 1440} THEN {175, 350, 575, 700}
  ELSE {}

\* int(e / 1000 * dim) for 0 <= e <= 1000: the double product, truncated
ToPixel(e, dim) ==
  IF e \in FloatShort(dim) THEN (e * dim) \div 1000 - 1 ELSE (e * dim) \div 1000

\* _get_coords: normalized 0..1000 to pixels
GetCoords(dev, element) ==
  <<ToPixel(element[1], dev.screen_size[1]), ToPixel(element[2], dev.screen_size[2])>>

Pt(c) == "(" \o ToString(c[1]) \o ", " \o ToString(c[2]) \o ")"
PtTight(c) == "(" \o ToString(c[1]) \o "," \o ToString(c[2]) \o ")"

HandleTap(params, dev) ==
  LET c == GetCoords(dev, Get(params, "element", <<500, 500>>))
      duration == Get(params, "duration", 1000)
  IN IF Get(params, "long_press", FALSE)
     THEN IF Ok(dev, "long_press")
          THEN ActionResult(TRUE, FALSE, "long press " \o Pt(c) \o " " \o ToString(duration) \o "ms", <<"long_press">>)
          ELSE ActionResult(FALSE, FALSE, "long press failed", <<"long_press">>)
     ELSE IF Ok(dev, "tap")
          THEN ActionResult(TRUE, FALSE, "tap " \o Pt(c), <<"tap">>)
          ELSE ActionResult(FALSE, FALSE, "tap failed", <<"tap">>)

HandleSwipe(params, dev) ==
  LET element == Get(params, "element", <<>>)
      direction == Get(params, "direction", "up")
  IN IF Len(element) >= 4
     THEN LET a == GetCoords(dev, <<element[1], element[2]>>)
              b == GetCoords(dev, <<element[3], element[4]>>)
          IN IF Ok(dev, "swipe")
             THEN ActionResult(TRUE, FALSE, "swipe " \o PtTight(a) \o " -> " \o PtTight(b), <<"swipe">>)
             ELSE ActionResult(FALSE, FALSE, "swipe failed", <<"swipe">>)
     ELSE IF direction \in {"up", "down", "left", "right"}
          THEN IF Ok(dev, "swipe_" \o direction)
               THEN ActionResult(TRUE, FALSE, "swipe " \o direction, <<"swipe_" \o direction>>)
               ELSE ActionResult(FALSE, FALSE, "swipe failed", <<"swipe_" \o direction>>)
          ELSE ActionResult(FALSE, FALSE, "swipe failed", <<>>)

HandleDrag(params, dev) ==
  LET a == GetCoords(dev, Get(params, "start", <<500, 500>>))
      b == GetCoords(dev, Get(params, "end", <<500, 500>>))
      duration == Get(params, "duration", 1000)
  IN IF Ok(dev, "swipe")
     THEN ActionResult(TRUE, FALSE,
            "drag " \o PtTight(a) \o " -> " \o PtTight(b) \o " " \o ToString(duration) \o "ms", <<"swipe">>)
     ELSE ActionResult(FALSE, FALSE, "drag failed", <<"swipe">>)

HandleType(params, dev) ==
  LET text == Get(params, "text", "")
  IN IF text = "" THEN ActionResult(FALSE, FALSE, "missing input text", <<>>)
     ELSE IF Ok(dev, "input_text_adbime")
          THEN ActionResult(TRUE, FALSE, "input: " \o Prefix(text, 20) \o "...", <<"input_text_adbime">>)
     ELSE IF Ok(dev, "input_text")
          THEN ActionResult(TRUE, FALSE, "input: " \o Prefix(text, 20) \o "...",
                            <<"input_text_adbime", "input_text">>)
     ELSE ActionResult(FALSE, FALSE, "input failed", <<"input_text_adbime", "input_text">>)

\* the clear branch: one KEYCODE_MOVE_END and 50 KEYCODE_DEL presses, results ignored
ClearPresses == [i \in 1..51 |-> "press_key"]

HandleTapAndType(params, dev) ==
  LET c == GetCoords(dev, Get(params, "element", <<500, 500>>))
      text == Get(params, "text", "")
      clear == Get(params, "clear", FALSE)
      presses == IF clear THEN ClearPresses ELSE <<>>
  IN IF text = "" THEN ActionResult(FALSE, FALSE, "missing input text", <<>>)
     ELSE IF ~Ok(dev, "tap") THEN ActionResult(FALSE, FALSE, "tap on input box failed", <<"tap">>)
     ELSE IF Ok(dev, "input_text_adbime")
          THEN ActionResult(TRUE, FALSE, "tap" \o PtTight(c) \o " and input: " \o Prefix(text, 20) \o "...",
                            <<"tap">> \o presses \o <<"input_text_adbime">>)
     ELSE IF Ok(dev, "input_text")
          THEN ActionResult(TRUE, FALSE, "tap" \o PtTight(c) \o " and input: " \o Prefix(text, 20) \o "...",
                            <<"tap">> \o presses \o <<"input_text_adbime", "input_text">>)
     ELSE ActionResult(FALSE, FALSE, "input text failed",
                       <<"tap">> \o presses \o <<"input_text_adbime", "input_text">>)

\* app_map: the static name -> package table (the entries the runs use)
AppMap == [n \in {"QQ", "12306"} |->
             IF n = "QQ" THEN "com.tencent.mobileqq" ELSE "com.MobileTicket"]

\* _find_package_by_name: the static table first, then the search on the
\* device, whose answer (a package or None) is the device's
FindPackageByName(app_name, dev) ==
  IF app_name \in DOMAIN AppMap THEN AppMap[app_name] ELSE dev.search

FindCalls(app_name) == IF app_name \in DOMAIN AppMap THEN <<>> ELSE <<"shell">>

HandleLaunch(params, dev) ==
  LET app_name == Get(params, "app_name", "")
      package == IF app_name # "" THEN FindPackageByName(app_name, dev)
                 ELSE Get(params, "package", "")
      looked == IF app_name # "" THEN FindCalls(app_name) ELSE <<>>
      display == IF app_name # "" THEN app_name \o " (" \o package \o ")" ELSE package
  IN IF app_name # "" /\ package = None
     THEN ActionResult(FALSE, FALSE, "app not found: " \o app_name, looked)
     ELSE IF package = "" THEN ActionResult(FALSE, FALSE, "missing app_name or package", looked)
     ELSE IF Ok(dev, "launch_app")
          THEN ActionResult(TRUE, FALSE, "launched: " \o display, looked \o <<"launch_app">>)
          ELSE ActionResult(FALSE, FALSE, "launch failed: " \o display, looked \o <<"launch_app">>)

\* key_map, keyed by key.lower()
KeyMap == [k \in {"enter", "delete", "volume_up", "volume_down", "app_switch", "snapshot"} |->
             CASE k = "enter" -> 66 [] k = "delete" -> 67 [] k = "volume_up" -> 24
               [] k = "volume_down" -> 25 [] k = "app_switch" -> 187 [] k = "snapshot" -> 120]

\* str.lower() on the key names the runs use
Lower(s) == CASE s = "Enter" -> "enter" [] s = "ENTER" -> "enter" [] OTHER -> s

HandleKeyPress(params, dev) ==
  LET key == Get(params, "key", "")
  IN IF key = "" THEN ActionResult(FALSE, FALSE, "missing key", <<>>)
     ELSE IF Lower(key) \notin DOMAIN KeyMap
          THEN ActionResult(FALSE, FALSE, "unknown key: " \o key, <<>>)
     ELSE IF Ok(dev, "press_key")
          THEN ActionResult(TRUE, FALSE, "key: " \o key, <<"press_key">>)
          ELSE ActionResult(FALSE, FALSE, "key failed: " \o key, <<"press_key">>)

HandleBack(params, dev) ==
  IF Ok(dev, "press_back") THEN ActionResult(TRUE, FALSE, "back", <<"press_back">>)
  ELSE ActionResult(FALSE, FALSE, "back failed", <<"press_back">>)

HandleHome(params, dev) ==
  IF Ok(dev, "press_home") THEN ActionResult(TRUE, FALSE, "home", <<"press_home">>)
  ELSE ActionResult(FALSE, FALSE, "home failed", <<"press_home">>)

HandleWait(params, dev) ==
  LET seconds == Max(1, Min(30, Get(params, "seconds", 5)))
  IN ActionResult(TRUE, FALSE, "waited " \o ToString(seconds) \o " s", <<>>)

HandleLongPress(params, dev) ==
  LET c == GetCoords(dev, Get(params, "element", <<500, 500>>))
  IN IF Ok(dev, "long_press") THEN ActionResult(TRUE, FALSE, "long press " \o Pt(c), <<"long_press">>)
     ELSE ActionResult(FALSE, FALSE, "long press failed", <<"long_press">>)

HandleDoubleTap(params, dev) ==
  LET c == GetCoords(dev, Get(params, "element", <<500, 500>>))
  IN IF Ok(dev, "double_tap") THEN ActionResult(TRUE, FALSE, "double tap " \o Pt(c), <<"double_tap">>)
     ELSE ActionResult(FALSE, FALSE, "double tap failed", <<"double_tap">>)

HandleFinish(params, dev) ==
  ActionResult(TRUE, TRUE, Get(params, "message", TaskDone), <<>>)

\* a pause that does not end the step's run
HandlePause_Continues(params, dev) ==
  ActionResult(TRUE, FALSE, "[paused] " \o Get(params, "message", "waiting for the user"), <<>>)

HandlePause(params, dev) ==
  ActionResult(TRUE, TRUE, "[paused] " \o Get(params, "message", "waiting for the user"), <<>>)

\* self._handlers[action_type](params)
Handle(action_type, params, dev) ==
  CASE action_type = "Tap" -> HandleTap(params, dev)
    [] action_type = "Swipe" -> HandleSwipe(params, dev)
    [] action_type = "Drag" -> HandleDrag(params, dev)
    [] action_type = "Type" -> HandleType(params, dev)
    [] action_type = "TapAndType" -> HandleTapAndType(params, dev)
    [] action_type = "Launch" -> HandleLaunch(params, dev)
    [] action_type = "KeyPress" -> HandleKeyPress(params, dev)
    [] action_type = "Back" -> HandleBack(params, dev)
    [] action_type = "Home" -> HandleHome(params, dev)
    [] action_type = "Wait" -> HandleWait(params, dev)
    [] action_type = "Long Press" -> HandleLongPress(params, dev)
    [] action_type = "Double Tap" -> HandleDoubleTap(params, dev)
    [] action_type = "finish" -> HandleFinish(params, dev)
    [] action_type = "pause" -> HandlePause(params, dev)

(***************************************************************************)
(* A directive is the action text the model produced, kept as what         *)
(* json.loads makes of it: json says whether the text parses and to what   *)
(* kind of value, text is the text itself (used by the diagnostic), keys   *)
(* the top-level keys of an object, action and params their values.        *)
(***************************************************************************)
NoParams == [k \in {} |-> ""]

Text(json, text) ==
  [json |-> json, text |-> text, keys |-> {}, action |-> "", params_type |-> "dict",
   params |-> NoParams]

Obj(keys, action, params) ==
  [json |-> "object", text |-> "{...}", keys |-> keys, action |-> action,
   params_type |-> "dict", params |-> params]

Act(action, params) == Obj({"action", "params"}, action, params)

\* Execute without the except clause for json.JSONDecodeError
Execute_NoCatch(d, dev) ==
  IF d.json # "object" THEN Raised(<<>>)
  ELSE IF "action" \notin d.keys \/ d.action = "" \/ d.action = None THEN ActionResult(FALSE, FALSE, "missing action field", <<>>)
  ELSE IF d.action \notin ActionType THEN ActionResult(FALSE, FALSE, "unknown action type: " \o d.action, <<>>)
  ELSE IF "params" \in d.keys /\ d.params_type # "dict" /\ d.action \notin {"Back", "Home"}
       THEN Raised(<<>>)
  ELSE Handle(d.action, IF "params" \in d.keys /\ d.params_type = "dict" THEN d.params ELSE NoParams, dev)

\* ActionHandler.execute
Execute(d, dev) ==
  IF d.json = "malformed"
  THEN ActionResult(FALSE, FALSE, "invalid action JSON: " \o Prefix(d.text, 100), <<>>)
  ELSE IF d.json # "object" THEN Raised(<<>>)
  ELSE IF "action" \notin d.keys \/ d.action = "" \/ d.action = None
       THEN ActionResult(FALSE, FALSE, "missing action field", <<>>)
  ELSE IF d.action \notin ActionType
       THEN ActionResult(FALSE, FALSE, "unknown action type: " \o d.action, <<>>)
  ELSE IF "params" \in d.keys /\ d.params_type # "dict" /\ d.action \notin {"Back", "Home"}
       THEN Raised(<<>>)
  ELSE Handle(d.action, IF "params" \in d.keys /\ d.params_type = "dict" THEN d.params ELSE NoParams, dev)

(***************************************************************************)
(* BillingManager: costs are kept in millionths of the currency unit, so   *)
(* tokens / 1_000_000 * price_per_million is tokens * price exactly.       *)
(* Where a price has cents (2.50 per million) it is written in hundredths  *)
(* of the currency unit (250) and the cost is in millionths of those.      *)
(***************************************************************************)
\* None in a field declared int | None (PriceTier.max_tokens,
\* ComplexPriceTier.input_max, output_min, output_max)
NoLimit == -1

\* ModelPricing(vendor=, model=, pricing_type=) with every other field at
\* its default
ModelPricing(vendor, model, pricing_type) ==
  [vendor |-> vendor, model |-> model, pricing_type |-> pricing_type,
   input_price_per_million |-> 0, output_price_per_million |-> 0,
   tiers |-> <<>>, complex_tiers |-> <<>>,
   free_input_tokens |-> 0, free_output_tokens |-> 0]

PriceTier(min_tokens, max_tokens, input_price, output_price) ==
  [min_tokens |-> min_tokens, max_tokens |-> max_tokens,
   input_price |-> input_price, output_price |-> output_price]

ComplexPriceTier(input_min, input_max, output_min, output_max, input_price, output_price) ==
  [input_min |-> input_min, input_max |-> input_max,
   output_min |-> output_min, output_max |-> output_max,
   input_price |-> input_price, output_price |-> output_price]

\* f"{vendor}:{model}"
Key(vendor, model) == vendor \o ":" \o model

\* the free allowance is not taken off
CalculateFixedCost_NoAllowance(pricing, prompt_tokens, completion_tokens) ==
  LET input_cost == prompt_tokens * pricing.input_price_per_million
      output_cost == completion_tokens * pricing.output_price_per_million
  IN <<input_cost, output_cost, input_cost + output_cost>>

\* _calculate_fixed_cost
CalculateFixedCost(pricing, prompt_tokens, completion_tokens) ==
  LET billable_prompt == Max(0, prompt_tokens - pricing.free_input_tokens)
      billable_completion == Max(0, completion_tokens - pricing.free_output_tokens)
      input_cost == billable_prompt * pricing.input_price_per_million
      output_cost == billable_completion * pricing.output_price_per_million
  IN <<input_cost, output_cost, input_cost + output_cost>>

\* sorted(tiers, key=lambda t: t.min_tokens): stable, ascending
RECURSIVE SortedTiers(_)
SortedTiers(tiers) ==
  IF tiers = <<>> THEN <<>>
  ELSE LET least == CHOOSE i \in 1..Len(tiers) :
                      /\ \A j \in 1..Len(tiers) : tiers[i].min_tokens <= tiers[j].min_tokens
                      /\ \A j \in 1..(i - 1) : tiers[j].min_tokens # tiers[i].min_tokens
           rest == SubSeq(tiers, 1, least - 1) \o SubSeq(tiers, least + 1, Len(tiers))
       IN <<tiers[least]>> \o SortedTiers(rest)

\* _calculate_tiered_cost: one pass of the loop body over the tier `tier`;
\* `tier.max_tokens if tier.max_tokens else float("inf")` takes None and 0
\* alike for no end
TierStep(tier, acc) ==
  LET unbounded == tier.max_tokens = NoLimit \/ tier.max_tokens = 0
      tier_size == tier.max_tokens - tier.min_tokens
      prompt_in_tier == IF unbounded THEN acc.remaining_prompt
                        ELSE Min(acc.remaining_prompt, tier_size)
      completion_in_tier == IF unbounded THEN acc.remaining_completion
                            ELSE Min(acc.remaining_completion, tier_size)
      billed_prompt == IF prompt_in_tier > 0 THEN prompt_in_tier ELSE 0
      billed_completion == IF completion_in_tier > 0 THEN completion_in_tier ELSE 0
  IN [input_cost |-> acc.input_cost + billed_prompt * tier.input_price,
      output_cost |-> acc.output_cost + billed_completion * tier.output_price,
      remaining_prompt |-> acc.remaining_prompt - billed_prompt,
      remaining_completion |-> acc.remaining_completion - billed_completion]

\* _calculate_tiered_cost: the for loop from tier i on
RECURSIVE TierWalk(_, _, _)
TierWalk(tiers, i, acc) ==
  IF i > Len(tiers) THEN acc
  ELSE IF acc.remaining_prompt <= 0 /\ acc.remaining_completion <= 0 THEN acc
  ELSE TierWalk(tiers, i + 1, TierStep(tiers[i], acc))

\* _calculate_tiered_cost
CalculateTieredCost(pricing, prompt_tokens, completion_tokens) ==
  LET end == TierWalk(SortedTiers(pricing.tiers), 1,
                      [input_cost |-> 0, output_cost |-> 0,
                       remaining_prompt |-> prompt_tokens,
                       remaining_completion |-> completion_tokens])
  IN <<end.input_cost, end.output_cost, end.input_cost + end.output_cost>>

\* _calculate_complex_tiered_cost: the test of one tier
TierMatches(tier, prompt_tokens, completion_tokens) ==
  LET input_match == /\ tier.input_min <= prompt_tokens
                     /\ tier.input_max # NoLimit => prompt_tokens <= tier.input_max
      output_match == /\ tier.output_min # NoLimit => completion_tokens >= tier.output_min
                      /\ tier.output_max # NoLimit => completion_tokens <= tier.output_max
  IN input_match /\ output_match

\* no matching tier: the first declared tier stands in (the code takes the last)
MatchedTier_FirstOnMiss(complex_tiers, prompt_tokens, completion_tokens) ==
  LET hits == {i \in 1..Len(complex_tiers) :
                 TierMatches(complex_tiers[i], prompt_tokens, completion_tokens)}
  IN IF hits = {} THEN complex_tiers[1]
     ELSE complex_tiers[CHOOSE i \in hits : \A j \in hits : i <= j]

\* _calculate_complex_tiered_cost: matched_tier
MatchedTier(complex_tiers, prompt_tokens, completion_tokens) ==
  LET hits == {i \in 1..Len(complex_tiers) :
                 TierMatches(complex_tiers[i], prompt_tokens, completion_tokens)}
  IN IF hits = {} THEN complex_tiers[Len(complex_tiers)]
     ELSE complex_tiers[CHOOSE i \in hits : \A j \in hits : i <= j]

\* _calculate_complex_tiered_cost
CalculateComplexTieredCost(pricing, prompt_tokens, completion_tokens) ==
  IF pricing.complex_tiers = <<>>
  THEN IF pricing.tiers # <<>>
       THEN CalculateTieredCost(pricing, prompt_tokens, completion_tokens)
       ELSE <<0, 0, 0>>
  ELSE LET matched_tier == MatchedTier(pricing.complex_tiers, prompt_tokens, completion_tokens)
           input_cost == prompt_tokens * matched_tier.input_price
           output_cost == completion_tokens * matched_tier.output_price
       IN <<input_cost, output_cost, input_cost + output_cost>>

\* get_pricing found nothing for vendor:model
NoPricing == [pricing_type |-> "unregistered"]

\* an unregistered model is billed one unit per token
CalculateCost_MissBilled(pricing, prompt_tokens, completion_tokens) ==
  IF pricing = NoPricing THEN <<prompt_tokens, completion_tokens, prompt_tokens + completion_tokens>>
  ELSE IF pricing.pricing_type = "free" THEN <<0, 0, 0>>
  ELSE IF pricing.pricing_type = "fixed"
       THEN CalculateFixedCost(pricing, prompt_tokens, completion_tokens)
  ELSE IF pricing.pricing_type = "tiered"
       THEN CalculateTieredCost(pricing, prompt_tokens, completion_tokens)
  ELSE IF pricing.pricing_type = "tiered_complex"
       THEN CalculateComplexTieredCost(pricing, prompt_tokens, completion_tokens)
  ELSE <<0, 0, 0>>

\* calculate_cost: pricing is what get_pricing found for vendor:model
CalculateCost(pricing, prompt_tokens, completion_tokens) ==
  IF pricing = NoPricing THEN <<0, 0, 0>>
  ELSE IF pricing.pricing_type = "free" THEN <<0, 0, 0>>
  ELSE IF pricing.pricing_type = "fixed"
       THEN CalculateFixedCost(pricing, prompt_tokens, completion_tokens)
  ELSE IF pricing.pricing_type = "tiered"
       THEN CalculateTieredCost(pricing, prompt_tokens, completion_tokens)
  ELSE IF pricing.pricing_type = "tiered_complex"
       THEN CalculateComplexTieredCost(pricing, prompt_tokens, completion_tokens)
  ELSE <<0, 0, 0>>

\* BillingManager() and reset(): no records, zero totals
EmptyLedger ==
  [_usage_records |-> <<>>, _total_prompt_tokens |-> 0, _total_completion_tokens |-> 0,
   _total_cost |-> 0]

\* BillingManager(): nothing registered
EmptyRegistry == [key \in {} |-> NoPricing]

\* register_pricing: the registry after the call
RegisterPricing(registry, p) ==
  LET key == Key(p.vendor, p.model)
  IN [k \in DOMAIN registry \cup {key} |-> IF k = key THEN p ELSE registry[k]]

\* get_pricing: self._pricing_registry.get(key)
GetPricing(registry, vendor, model) ==
  LET key == Key(vendor, model)
  IN IF key \in DOMAIN registry THEN registry[key] ELSE NoPricing

\* record_usage: the UsageRecord appended; pricing is what get_pricing
\* found for vendor:model
UsageRecord(vendor, model, pricing, prompt_tokens, completion_tokens) ==
  LET c == CalculateCost(pricing, prompt_tokens, completion_tokens)
  IN [provider |-> vendor, model |-> model,
      prompt_tokens |-> prompt_tokens, completion_tokens |-> completion_tokens,
      input_cost |-> c[1], output_cost |-> c[2], total_cost |-> c[3]]

\* record_usage whose running total counts the input cost only
RecordUsage_InputCostOnly(l, vendor, model, pricing, prompt_tokens, completion_tokens) ==
  LET record == UsageRecord(vendor, model, pricing, prompt_tokens, completion_tokens)
  IN [_usage_records |-> Append(l._usage_records, record),
      _total_prompt_tokens |-> l._total_prompt_tokens + prompt_tokens,
      _total_completion_tokens |-> l._total_completion_tokens + completion_tokens,
      _total_cost |-> l._total_cost + record.input_cost]

\* record_usage: the ledger after the call
RecordUsage(l, vendor, model, pricing, prompt_tokens, completion_tokens) ==
  LET record == UsageRecord(vendor, model, pricing, prompt_tokens, completion_tokens)
  IN [_usage_records |-> Append(l._usage_records, record),
      _total_prompt_tokens |-> l._total_prompt_tokens + prompt_tokens,
      _total_completion_tokens |-> l._total_completion_tokens + completion_tokens,
      _total_cost |-> l._total_cost + record.total_cost]

\* sum(r.<field> for r in records), left to right
RECURSIVE SumOver(_, _)
SumOver(records, field) ==
  IF records = <<>> THEN 0
  ELSE SumOver(SubSeq(records, 1, Len(records) - 1), field) + records[Len(records)][field]

\* provider and model are taken from the first record (the code takes the last)
GetTaskSummary_FirstRecord(l) ==
  IF l._usage_records = <<>>
  THEN [provider |-> "N/A", model |-> "N/A", total_prompt_tokens |-> 0,
        total_completion_tokens |-> 0, total_input_cost |-> 0, total_output_cost |-> 0,
        total_cost |-> 0, step_count |-> 0]
  ELSE LET first_record == l._usage_records[1]
       IN [provider |-> first_record.provider, model |-> first_record.model,
           total_prompt_tokens |-> l._total_prompt_tokens,
           total_completion_tokens |-> l._total_completion_tokens,
           total_input_cost |-> SumOver(l._usage_records, "input_cost"),
           total_output_cost |-> SumOver(l._usage_records, "output_cost"),
           total_cost |-> l._total_cost,
           step_count |-> Len(l._usage_records)]

\* get_task_summary (without the copy of the records)
GetTaskSummary(l) ==
  IF l._usage_records = <<>>
  THEN [provider |-> "N/A", model |-> "N/A", total_prompt_tokens |-> 0,
        total_completion_tokens |-> 0, total_input_cost |-> 0, total_output_cost |-> 0,
        total_cost |-> 0, step_count |-> 0]
  ELSE LET last_record == l._usage_records[Len(l._usage_records)]
       IN [provider |-> last_record.provider, model |-> last_record.model,
           total_prompt_tokens |-> l._total_prompt_tokens,
           total_completion_tokens |-> l._total_completion_tokens,
           total_input_cost |-> SumOver(l._usage_records, "input_cost"),
           total_output_cost |-> SumOver(l._usage_records, "output_cost"),
           total_cost |-> l._total_cost,
           step_count |-> Len(l._usage_records)]

(***************************************************************************)
(* DeviceManager                                                           *)
(***************************************************************************)
\* serials adb may list, and the tasks that ask for devices
DeviceIds == {"emulator-5554", "R58M123ABC"}
TaskIds == {"t1", "t2", "t3"}

\* DeviceInfo(device_id=, state=, current_task_id=); the fields read from
\* getprop and wm size are left out
DeviceInfo(device_id, state, current_task_id) ==
  [device_id |-> device_id, state |-> state, current_task_id |-> current_task_id]

\* DeviceManager(): self._devices = {}
NoDevices == [d \in {} |-> DeviceInfo("", "offline", None)]
NoHolders == [d \in DeviceIds |-> {}]

\* scan_devices: every serial adb lists gets a fresh DeviceInfo, online or
\* (when getprop raised) offline; entries of unlisted serials stay
ScanDevices(table, listed, unreadable) ==
  [d \in DOMAIN table \cup listed |->
     IF d \in listed
     THEN DeviceInfo(d, IF d \in unreadable THEN "offline" ELSE "online", None)
     ELSE table[d]]

\* acquire_device: `device and device.state == DeviceState.ONLINE`
CanAcquire(table, device_id) ==
  device_id \in DOMAIN table /\ table[device_id].state = "online"

\* acquire_device's table after the call
AcquireDevice(table, device_id, task_id) ==
  IF CanAcquire(table, device_id)
  THEN [table EXCEPT ![device_id] = DeviceInfo(device_id, "busy", task_id)]
  ELSE table

\* release_device's table after the call
ReleaseDevice(table, device_id) ==
  IF device_id \in DOMAIN table
  THEN [table EXCEPT ![device_id] = DeviceInfo(device_id, "online", None)]
  ELSE table

(***************************************************************************)
(* Conversation and Task Plan                                              *)
(***************************************************************************)
\* what a message says about the Task Plan; only a summary says anything
NoBody == [completed |-> <<>>, pending |-> <<>>, compressed |-> 0]

\* one message of self._messages: its role, what its content is, for a
\* feedback message whether it reports success, for a summary its body
Msg(role, kind, ok) == [role |-> role, kind |-> kind, ok |-> ok, body |-> NoBody]

SystemMsg == Msg("system", "system_prompt", TRUE)
TaskMsg == Msg("user", "task", TRUE)
AssistantMsg == Msg("assistant", "raw_content", TRUE)
FeedbackMsg(ok) == Msg("user", "feedback", ok)

\* SummaryBody that lists the tasks still pending and forgets the one in progress
SummaryBody_PendingOnly(plan, n) ==
  LET IsDone(t) == t.status = "completed"
      IsOpen(t) == t.status = "pending"
      done == SelectSeq(plan.tasks, IsDone)
      open == SelectSeq(plan.tasks, IsOpen)
  IN [completed |-> [i \in 1..Len(done) |-> done[i].name],
      pending |-> [i \in 1..Len(open) |-> [id |-> open[i].id, name |-> open[i].name]],
      compressed |-> n]

\* _summarize_history: the sections of summary_content on the Task Plan (the
\* names under "completed sub-tasks", id and name under "sub-tasks to do")
\* and the count of compressed messages; the digest of recent actions, which
\* is cut to ten entries, is left out
SummaryBody(plan, n) ==
  LET IsDone(t) == t.status = "completed"
      IsOpen(t) == t.status # "completed"
      done == SelectSeq(plan.tasks, IsDone)
      open == SelectSeq(plan.tasks, IsOpen)
  IN [completed |-> [i \in 1..Len(done) |-> done[i].name],
      pending |-> [i \in 1..Len(open) |-> [id |-> open[i].id, name |-> open[i].name]],
      compressed |-> n]

\* {"role": "user", "content": summary_content}
SummaryMsg(plan, n) == [Msg("user", "summary", TRUE) EXCEPT !.body = SummaryBody(plan, n)]

\* TaskPlan.current_task_id = None
NoTaskId == -1

\* TaskPlan()
NewTaskPlan == [tasks |-> <<>>, current_task_id |-> NoTaskId, phase |-> "init"]

\* SubTask(id=t["id"], name=t["name"], status=t.get("status", "pending"))
SubTask(t) == [id |-> t.id, name |-> t.name, status |-> Get(t, "status", "pending")]

\* the first task with the given id gets the status (for ... if ...: break)
MarkFirst(tasks, id, status) ==
  LET hits == {i \in 1..Len(tasks) : tasks[i].id = id}
  IN IF hits = {} THEN tasks
     ELSE LET i == CHOOSE j \in hits : \A k \in hits : j <= k
          IN [tasks EXCEPT ![i].status = status]

\* _execute_step, step 4: the planning metadata of raw_content.  meta.json
\* says whether the regex found a JSON object that json.loads accepted;
\* tasks_ok whether every entry of tasks has id and name.  An exception
\* inside the try block ends the block where it is, keeping what was
\* assigned before it.
ApplyMeta(plan, meta) ==
  IF ~meta.json THEN plan
  ELSE IF Get(meta.data, "phase", None) = "plan" /\ "tasks" \in DOMAIN meta.data /\ ~meta.tasks_ok
       THEN [plan EXCEPT !.phase = "plan"]
  ELSE
    LET p1 == IF Get(meta.data, "phase", None) = "plan" /\ "tasks" \in DOMAIN meta.data
              THEN LET ts == [i \in 1..Len(meta.data.tasks) |-> SubTask(meta.data.tasks[i])]
                   IN IF ts # <<>>
                      THEN [tasks |-> ts, current_task_id |-> ts[1].id, phase |-> "execute"]
                      ELSE [plan EXCEPT !.tasks = ts, !.phase = "plan"]
              ELSE plan
        p2 == IF "task_completed" \in DOMAIN meta.data
              THEN [p1 EXCEPT !.tasks = MarkFirst(p1.tasks, meta.data.task_completed, "completed")]
              ELSE p1
        p3 == IF "current_task_id" \in DOMAIN meta.data
              THEN [p2 EXCEPT !.current_task_id = meta.data.current_task_id,
                              !.tasks = MarkFirst(p2.tasks, meta.data.current_task_id, "in_progress")]
              ELSE p2
    IN p3

\* SummarizeHistory that keeps the last 2 messages instead of the last 4
SummarizeHistory_KeepsTwo(msgs, plan) ==
  IF Len(msgs) <= 3 THEN msgs
  ELSE LET has_system == msgs[1].role = "system"
           recent_msgs == SubSeq(msgs, Len(msgs) - 1, Len(msgs))
           history_msgs == SubSeq(msgs, IF has_system THEN 2 ELSE 1, Len(msgs) - 2)
       IN IF history_msgs = <<>> THEN msgs
          ELSE (IF has_system THEN <<msgs[1]>> ELSE <<>>)
               \o <<SummaryMsg(plan, Len(history_msgs))>> \o recent_msgs

\* SummarizeHistory that keeps the last 3 messages instead of the last 4
SummarizeHistory_KeepsThree(msgs, plan) ==
  IF Len(msgs) <= 3 THEN msgs
  ELSE LET has_system == msgs[1].role = "system"
           recent_msgs == SubSeq(msgs, Len(msgs) - 2, Len(msgs))
           history_msgs == SubSeq(msgs, IF has_system THEN 2 ELSE 1, Len(msgs) - 3)
       IN IF history_msgs = <<>> THEN msgs
          ELSE (IF has_system THEN <<msgs[1]>> ELSE <<>>)
               \o <<SummaryMsg(plan, Len(history_msgs))>> \o recent_msgs

\* _summarize_history, on the shape of the conversation and the Task Plan
SummarizeHistory(msgs, plan) ==
  IF Len(msgs) <= 3 THEN msgs
  ELSE LET has_system == msgs[1].role = "system"
           recent_msgs == SubSeq(msgs, Len(msgs) - 3, Len(msgs))
           history_msgs == SubSeq(msgs, IF has_system THEN 2 ELSE 1, Len(msgs) - 4)
       IN IF history_msgs = <<>> THEN msgs
          ELSE (IF has_system THEN <<msgs[1]>> ELSE <<>>)
               \o <<SummaryMsg(plan, Len(history_msgs))>> \o recent_msgs

(***************************************************************************)
(* What the runs are given: the model's responses and the device           *)
(***************************************************************************)
NoMeta == [json |-> FALSE, says_plan |-> FALSE, tasks_ok |-> TRUE, data |-> NoParams]

\* {"phase": "plan", "tasks": [{"id": 1, ...}, {"id": 2, ...}]}
PlanMeta ==
  [json |-> TRUE, says_plan |-> TRUE, tasks_ok |-> TRUE,
   data |-> [phase |-> "plan",
             tasks |-> <<[id |-> 1, name |-> "open settings"], [id |-> 2, name |-> "go home"]>>]]

EmptyAction == Text("malformed", "")

Directives ==
  { Text("malformed", "tap the button"),
    EmptyAction,
    Text("array", "[1, 2]"),
    Obj({"params"}, "", NoParams),
    Obj({"action"}, "", NoParams),
    Act("Fly", NoParams),
    Act("Tap", [element |-> <<500, 500>>]),
    Act("Home", NoParams),
    Act("Launch", [package |-> "com.android.settings"]),
    Act("Launch", [app_name |-> "Notes"]),
    Act("finish", [message |-> "done"]),
    Act("finish", [message |-> ""]),
    Act("finish", NoParams),
    Act("pause", [message |-> "need login"]) }

\* VLMResponse: action, the planning metadata of raw_content, token usage
Responses ==
  {[action |-> d, meta |-> NoMeta, prompt_tokens |-> 3, completion_tokens |-> 1] : d \in Directives}
  \cup {[action |-> d, meta |-> PlanMeta, prompt_tokens |-> 3, completion_tokens |-> 1] :
          d \in {EmptyAction, Act("Tap", [element |-> <<500, 500>>])}}

NoResponse == [action |-> EmptyAction, meta |-> NoMeta, prompt_tokens |-> 0, completion_tokens |-> 0]
NoResult == ActionResult(FALSE, FALSE, None, <<>>)

\* what the device answers during one dispatch
Devices ==
  {[fail |-> f, search |-> s, screen_size |-> <<1080, 2400>>] :
     f \in {{}, {"tap"}, {"launch_app"}, {"press_home"}}, s \in {None, "com.example.notes"}}

\* the bound ModelProfile's vendor and model
Profile == [vendor |-> "OpenAI", model |-> "gpt-4o"]

FixedPricing ==
  [ModelPricing(Profile.vendor, Profile.model, "fixed") EXCEPT
     !.input_price_per_million = 2, !.output_price_per_million = 10,
     !.free_input_tokens = 1, !.free_output_tokens = 0]

\* a record_usage call: its arguments and the policy get_pricing found
UsageCall(vendor, model, pricing, prompt_tokens, completion_tokens) ==
  [vendor |-> vendor, model |-> model, pricing |-> pricing,
   prompt_tokens |-> prompt_tokens, completion_tokens |-> completion_tokens]

\* a calculate_cost call: its arguments, the policy found, what it returned
CostCall(vendor, model, pricing, prompt_tokens, completion_tokens, returned) ==
  [vendor |-> vendor, model |-> model, pricing |-> pricing,
   prompt_tokens |-> prompt_tokens, completion_tokens |-> completion_tokens,
   returned |-> returned]

\* calculate_cost was not called
NoCost == CostCall("", "", NoPricing, 0, 0, <<0, 0, 0>>)

\* input() raising EOFError, input() raising KeyboardInterrupt
EndOfInput == "<EOF>"
Interrupt == "<Ctrl-C>"

\* the step did not prompt
NoInput == <<>>

\* what the operator may type at the prompt of one step: the answer to the
\* choice and, after m, the answer to the confirmation that follows
OperatorInputs ==
  { <<"">>, <<"s">>, <<" S ">>, <<"x">>, <<"m", "">>, <<"M", "ok">>, <<"m", EndOfInput>>,
    <<"m", Interrupt>>, <<EndOfInput>>, <<Interrupt>> }

\* str.strip().lower() on the lines above
StripLower(line) ==
  CASE line = " S " -> "s"
    [] line = "M" -> "m"
    [] OTHER -> line

\* _wait_for_user_input: the user_action it returns
\* the answers of an operator who goes on or stops
PlainInputs == { <<"">>, <<"s">> }

WaitForUserInput(keys) ==
  IF keys[1] \in {EndOfInput, Interrupt} THEN "stop"
  ELSE LET choice == StripLower(keys[1])
       IN IF choice = "s" THEN "stop"
          ELSE IF choice = "m"
               THEN IF keys[2] \in {EndOfInput, Interrupt} THEN "stop" ELSE "skip"
               ELSE "continue"

\* AgentConfig.action_delay: the default UI-settle delay, in seconds
ActionDelay == 3

Configs ==
  [max_steps : -1..MaxStepsBound, summarize_interval : {0, 2}, pause_on_action : BOOLEAN,
   enable_billing : BOOLEAN, action_delay : {ActionDelay}]

(***************************************************************************)
(* The agent                                                               *)
(***************************************************************************)
VARIABLES
  config,           \* AgentConfig
  billing_manager,  \* whether a BillingManager is bound
  profile,          \* whether a ModelProfile is bound
  pricing,          \* the policy registered for the profile's vendor:model
  screen_size,      \* device.screen_size, (width, height) in pixels
  _devices,         \* the DeviceManager's table, device_id -> DeviceInfo
  holders,          \* per device, the tasks whose acquire_device returned
                    \* True since the device's last release_device
  _pricing_registry, \* the BillingManager's registry, vendor:model -> policy
  cost,             \* the last calculate_cost call made on the BillingManager
                    \* from outside and what it returned; run() makes none
  attrs,            \* which of _paused, _task_plan the object has
  pc,               \* where run() is
  _messages, _step_count, _total_cost, _cancelled, _paused, _task_plan,
  ledger,           \* the BillingManager's records and totals
  calls,            \* the record_usage calls since the ledger's last reset
  response,         \* _execute_step's response
  action_result,    \* _execute_step's action_result
  step_cost,        \* _execute_step's step_cost
  emitted,          \* the StepResults on_step_callback received in this run
  result,           \* what run() returned
  resets,           \* calls of billing_manager.reset() in this run
  cancel_at,        \* where run() was when the cancel() arrived that set the
                    \* flag as it stands ("paused": waiting in the pause loop
                    \* with the pause flag set); None while the flag is clear
  cancel_step,      \* _step_count at that call
  user_input,       \* what the operator prompt of the last finished step read
                    \* from standard input; NoInput if the step did not prompt
  progress          \* the ProgressUpdates on_progress_callback received in
                    \* this run since on_step_callback last received a
                    \* StepResult, in order

vars ==
  <<config, billing_manager, profile, pricing, screen_size, _devices, holders, _pricing_registry,
    cost, attrs, pc, _messages,
    _step_count, _total_cost, _cancelled, _paused, _task_plan, ledger, calls, response,
    action_result, step_cost, emitted,
    result, resets, cancel_at, cancel_step, user_input, progress>>

wiring ==
  <<config, billing_manager, profile, pricing, screen_size, _devices, holders, _pricing_registry,
    cost>>
flags == <<_cancelled, _paused, attrs>>
observed == <<cancel_at, cancel_step>>
locals == <<response, action_result, step_cost, user_input, progress>>
task_state == <<_messages, _step_count, _total_cost, _task_plan, ledger, calls>>

\* the step is in flight: its model call or its action has begun and its
\* StepResult is not yet out
InFlight == {"model", "action", "settle"}

\* PhoneAgent.__init__: _paused and _task_plan are not assigned there, so
\* the object has neither attribute (their values below are not read)
Init ==
  /\ config \in Configs
  /\ billing_manager \in BOOLEAN
  /\ profile \in BOOLEAN
  /\ _pricing_registry = IF billing_manager THEN RegisterPricing(EmptyRegistry, FixedPricing)
                          ELSE EmptyRegistry
  /\ pricing = GetPricing(_pricing_registry, Profile.vendor, Profile.model)
  /\ cost = NoCost
  /\ calls = <<>>
  /\ screen_size = <<1080, 2400>>
  /\ _devices = NoDevices
  /\ holders = NoHolders
  /\ pc = "idle"
  /\ _messages = <<>>
  /\ _step_count = 0
  /\ _total_cost = 0
  /\ _cancelled = FALSE
  /\ attrs = {}
  /\ _paused = FALSE
  /\ _task_plan = NewTaskPlan
  /\ ledger = EmptyLedger
  /\ response = NoResponse
  /\ action_result = NoResult
  /\ user_input = NoInput
  /\ progress = <<>>
  /\ step_cost = 0
  /\ emitted = <<>>
  /\ result = None
  /\ resets = 0
  /\ cancel_at = None
  /\ cancel_step = 0

\* the host calls run(task)
RunCall ==
  /\ pc \in {"idle", "returned", "raised"}
  /\ pc' = "invoked"
  /\ emitted' = <<>>
  /\ result' = None
  /\ resets' = 0
  /\ cancel_at' = None
  /\ cancel_step' = 0
  /\ progress' = <<>>
  /\ UNCHANGED <<wiring, flags, response, action_result, step_cost, user_input, task_state>>

\* RunStart whose reset() leaves the Task Plan of the earlier run
RunStart_KeepsPlan ==
  /\ pc = "invoked"
  /\ _messages' = <<SystemMsg, TaskMsg>>
  /\ _step_count' = 0
  /\ _total_cost' = 0
  /\ _cancelled' = FALSE
  /\ _paused' = FALSE
  /\ attrs' = {"_paused", "_task_plan"}
  /\ ledger' = IF billing_manager THEN EmptyLedger ELSE ledger
  /\ calls' = IF billing_manager THEN <<>> ELSE calls
  /\ resets' = IF billing_manager THEN resets + 1 ELSE resets
  /\ pc' = "top"
  /\ cancel_at' = None
  /\ cancel_step' = 0
  /\ UNCHANGED <<wiring, locals, emitted, result, _task_plan>>

\* run(): reset(), then the system prompt and the task message
RunStart ==
  /\ pc = "invoked"
  /\ _messages' = <<SystemMsg, TaskMsg>>
  /\ _step_count' = 0
  /\ _total_cost' = 0
  /\ _cancelled' = FALSE
  /\ _paused' = FALSE
  /\ _task_plan' = NewTaskPlan
  /\ attrs' = {"_paused", "_task_plan"}
  /\ ledger' = IF billing_manager THEN EmptyLedger ELSE ledger
  /\ calls' = IF billing_manager THEN <<>> ELSE calls
  /\ resets' = IF billing_manager THEN resets + 1 ELSE resets
  /\ pc' = "top"
  /\ cancel_at' = None
  /\ cancel_step' = 0
  /\ UNCHANGED <<wiring, locals, emitted, result>>

\* LoopTop without the cancel check at the top of the iteration
LoopTop_NoCancelCheck ==
  /\ pc = "top"
  /\ IF ~(_step_count < config.max_steps)
     THEN pc' = "returned" /\ result' = StepLimitReached
     ELSE pc' = "spin" /\ UNCHANGED result
  /\ UNCHANGED <<wiring, flags, observed, locals, task_state, emitted, resets>>

\* LoopTop with the while condition off by one (<= for <)
LoopTop_OffByOne ==
  /\ pc = "top"
  /\ IF ~(_step_count <= config.max_steps)
     THEN pc' = "returned" /\ result' = StepLimitReached
     ELSE IF _cancelled
          THEN pc' = "returned" /\ result' = TaskCancelled
          ELSE pc' = "spin" /\ UNCHANGED result
  /\ UNCHANGED <<wiring, flags, observed, locals, task_state, emitted, resets>>

\* run(): the while condition and the first cancel check
LoopTop ==
  /\ pc = "top"
  /\ IF ~(_step_count < config.max_steps)
     THEN pc' = "returned" /\ result' = StepLimitReached
     ELSE IF _cancelled
          THEN pc' = "returned" /\ result' = TaskCancelled
          ELSE pc' = "spin" /\ UNCHANGED result
  /\ UNCHANGED <<wiring, flags, observed, locals, task_state, emitted, resets>>

\* PauseWait that does not wait: the pause flag is not looked at
PauseWait_NoWait ==
  /\ pc = "spin"
  /\ pc' = "chk2"
  /\ UNCHANGED <<wiring, flags, observed, locals, task_state, emitted, result, resets>>

\* run(): while self._paused and not self._cancelled: sleep; the loop leaves
\* the wait when the condition is false
PauseWait ==
  /\ pc = "spin"
  /\ ~(_paused /\ ~_cancelled)
  /\ pc' = "chk2"
  /\ UNCHANGED <<wiring, flags, observed, locals, task_state, emitted, result, resets>>

\* run(): the cancel check after the wait
CancelCheck ==
  /\ pc = "chk2"
  /\ _cancelled
  /\ pc' = "returned"
  /\ result' = TaskCancelled
  /\ UNCHANGED <<wiring, flags, observed, locals, task_state, emitted, resets>>

\* StepBegin reached without the cancel check after the wait
StepBegin_NoCancelCheck ==
  /\ pc = "chk2"
  /\ _step_count' = _step_count + 1
  /\ pc' = "model"
  /\ UNCHANGED <<wiring, flags, observed, locals, _messages, _total_cost, _task_plan, ledger, calls,
                 emitted, result, resets>>

\* _execute_step begins: the step count, the screenshot, the request goes out
StepBegin ==
  /\ pc = "chk2"
  /\ ~_cancelled
  /\ _step_count' = _step_count + 1
  /\ pc' = "model"
  /\ UNCHANGED <<wiring, flags, observed, locals, _messages, _total_cost, _task_plan, ledger, calls,
                 emitted, result, resets>>

\* ModelRaise where the assistant turn was appended before the request
ModelRaise_LeavesMessage ==
  /\ pc = "model"
  /\ pc' = "raised"
  /\ _messages' = Append(_messages, AssistantMsg)
  /\ UNCHANGED <<wiring, flags, observed, locals, _step_count, _total_cost, _task_plan, ledger, calls,
                 emitted, result, resets>>

\* vlm_client.request raises: nothing in run() or _execute_step catches it
ModelRaise ==
  /\ pc = "model"
  /\ pc' = "raised"
  /\ UNCHANGED <<wiring, flags, observed, locals, task_state, emitted, result, resets>>

\* ProgressUpdate: its step and phase fields
ProgressUpdate(step, phase) == [step |-> step, phase |-> phase]

\* vlm_client.request returns r: usage is recorded, the planning metadata
\* applied, the thinking update sent (step 4.5)
ModelReturn(r) ==
  /\ pc = "model"
  /\ response' = r
  /\ IF billing_manager /\ profile
     THEN /\ ledger' = RecordUsage(ledger, Profile.vendor, Profile.model, pricing,
                                   r.prompt_tokens, r.completion_tokens)
          /\ calls' = Append(calls, UsageCall(Profile.vendor, Profile.model, pricing,
                                              r.prompt_tokens, r.completion_tokens))
          /\ step_cost' = UsageRecord(Profile.vendor, Profile.model, pricing,
                                      r.prompt_tokens, r.completion_tokens).total_cost
     ELSE /\ step_cost' = 0
          /\ UNCHANGED <<ledger, calls>>
  /\ _task_plan' = ApplyMeta(_task_plan, r.meta)
  /\ progress' = Append(progress, ProgressUpdate(_step_count, "thinking"))
  /\ pc' = "action"
  /\ UNCHANGED <<wiring, flags, observed, action_result, user_input, _messages, _step_count, _total_cost,
                 emitted, result, resets>>

\* is_plan_phase that does not look at the action
IsPlanPhase_AnyAction(r) == r.meta.says_plan

\* is_plan_phase: raw_content says "phase": "plan" and action is empty
IsPlanPhase(r) == r.meta.says_plan /\ r.action.json = "malformed" /\ r.action.text = ""

\* ActionProgress that announces the wait after any outcome
ActionProgress_WaitsAlways(step, r, res) ==
  (IF IsPlanPhase(r) THEN <<ProgressUpdate(step, "action")>> ELSE <<>>)
  \o <<ProgressUpdate(step, "action")>>
  \o (IF config.action_delay > 0 THEN <<ProgressUpdate(step, "waiting")>> ELSE <<>>)

\* _execute_step, steps 4.6, 5.5 and 6: the updates sent once the outcome res
\* of the turn r is known: the planning turn's own action update, the action
\* update, the waiting update before the UI-settle delay
ActionProgress(step, r, res) ==
  (IF IsPlanPhase(r) THEN <<ProgressUpdate(step, "action")>> ELSE <<>>)
  \o <<ProgressUpdate(step, "action")>>
  \o (IF res.success /\ ~res.should_finish /\ config.action_delay > 0
      THEN <<ProgressUpdate(step, "waiting")>> ELSE <<>>)

\* _execute_step, steps 4.6 to 6: the planning no-op or action_handler.execute,
\* then the progress updates
Dispatch(dev) ==
  /\ pc = "action"
  /\ LET res == IF IsPlanPhase(response)
                THEN ActionResult(TRUE, FALSE, "plan ready", <<>>)
                ELSE Execute(response.action, [dev EXCEPT !.screen_size = screen_size])
     IN IF res.raised
        THEN /\ pc' = "raised"
             /\ action_result' = NoResult
             /\ response' = NoResponse
             /\ step_cost' = 0
             /\ UNCHANGED progress
        ELSE /\ pc' = "settle"
             /\ action_result' = res
             /\ progress' = progress \o ActionProgress(_step_count, response, res)
             /\ UNCHANGED <<response, step_cost>>
  /\ UNCHANGED <<wiring, flags, observed, user_input, task_state, emitted, result, resets>>

\* AfterOperator where manual intervention ends the task like stop
AfterOperator_SkipStops(ar, keys) ==
  IF config.pause_on_action /\ ~ar.should_finish /\ WaitForUserInput(keys) \in {"stop", "skip"}
  THEN [ar EXCEPT !.should_finish = TRUE, !.message = UserStopped]
  ELSE ar

\* _execute_step step 7: the operator's answer turns the outcome terminal on stop
AfterOperator(ar, keys) ==
  IF config.pause_on_action /\ ~ar.should_finish /\ WaitForUserInput(keys) = "stop"
  THEN [ar EXCEPT !.should_finish = TRUE, !.message = UserStopped]
  ELSE ar

\* StepMessages that gives feedback for successful actions only
StepMessages_NoFailureFeedback(ar) ==
  IF ar.should_finish \/ ~ar.success THEN <<AssistantMsg>> ELSE <<AssistantMsg, FeedbackMsg(ar.success)>>

\* StepMessages where a feedback message follows a terminal outcome as well
StepMessages_FeedbackAlways(ar) == <<AssistantMsg, FeedbackMsg(ar.success)>>

\* _execute_step step 8: the messages the step appends
StepMessages(ar) ==
  IF ar.should_finish THEN <<AssistantMsg>> ELSE <<AssistantMsg, FeedbackMsg(ar.success)>>

\* the StepResult _execute_step returns: its success and finished fields
StepResult(ar) == [success |-> ar.success, finished |-> ar.should_finish]

\* ReturnMessage without the default for an empty message
ReturnMessage_Verbatim(message) == message

\* run(): return result.message or the default
ReturnMessage(message) == IF message = None \/ message = "" THEN TaskDone ELSE message

\* MaybeSummarize that counts the step about to begin
MaybeSummarize_OffByOne(msgs) ==
  IF config.summarize_interval > 0
     /\ (_step_count + 1) % config.summarize_interval = 0
  THEN SummarizeHistory(msgs, _task_plan)
  ELSE msgs

\* MaybeSummarize that lets every other due summarization pass
MaybeSummarize_TwiceInterval(msgs) ==
  IF config.summarize_interval > 0 /\ _step_count > 0
     /\ _step_count % (2 * config.summarize_interval) = 0
  THEN SummarizeHistory(msgs, _task_plan)
  ELSE msgs

\* run(): the periodic summarization of the history
MaybeSummarize(msgs) ==
  IF config.summarize_interval > 0 /\ _step_count > 0
     /\ _step_count % config.summarize_interval = 0
  THEN SummarizeHistory(msgs, _task_plan)
  ELSE msgs

\* the rest of _execute_step (settle delay, operator prompt, history update,
\* StepResult) and of the iteration in run() (cost, callback, finished check,
\* summarization, step delay)
StepEnd(keys) ==
  /\ pc = "settle"
  /\ (keys # NoInput) <=> (config.pause_on_action /\ ~action_result.should_finish)
  /\ user_input' = keys
  /\ LET ar == AfterOperator(action_result, keys)
         msgs == _messages \o StepMessages(ar)
     IN /\ _total_cost' = _total_cost + step_cost
        /\ emitted' = Append(emitted, StepResult(ar))
        /\ IF ar.should_finish
           THEN /\ pc' = "returned"
                /\ result' = ReturnMessage(ar.message)
                /\ _messages' = msgs
           ELSE /\ pc' = "top"
                /\ _messages' = MaybeSummarize(msgs)
                /\ UNCHANGED result
  /\ response' = NoResponse
  /\ action_result' = NoResult
  /\ step_cost' = 0
  /\ progress' = <<>>
  /\ UNCHANGED <<wiring, flags, observed, _step_count, _task_plan, ledger, calls, resets>>

\* is_paused(): return self._paused, an AttributeError while the object has
\* no such attribute
IsPaused ==
  IF "_paused" \notin attrs THEN "AttributeError"
  ELSE IF _paused THEN "True" ELSE "False"

\* the controlling thread: cancel()
Cancel ==
  /\ _cancelled' = TRUE
  /\ _paused' = FALSE
  /\ attrs' = attrs \cup {"_paused"}
  /\ cancel_at' = IF cancel_at # None THEN cancel_at
                  ELSE IF pc = "spin" /\ _paused THEN "paused" ELSE pc
  /\ cancel_step' = IF cancel_at = None THEN _step_count ELSE cancel_step
  /\ UNCHANGED <<wiring, pc, locals, task_state, emitted, result, resets>>

\* the controlling thread: pause()
Pause ==
  /\ _paused' = TRUE
  /\ attrs' = attrs \cup {"_paused"}
  /\ UNCHANGED <<wiring, pc, _cancelled, observed, locals, task_state, emitted, result, resets>>

\* the controlling thread: resume()
Resume ==
  /\ _paused' = FALSE
  /\ attrs' = attrs \cup {"_paused"}
  /\ UNCHANGED <<wiring, pc, _cancelled, observed, locals, task_state, emitted, result, resets>>

Next ==
  \/ RunCall
  \/ RunStart
  \/ LoopTop
  \/ PauseWait
  \/ CancelCheck
  \/ StepBegin
  \/ ModelRaise
  \/ \E r \in Responses : ModelReturn(r)
  \/ \E dev \in Devices : Dispatch(dev)
  \/ \E keys \in PlainInputs \cup {NoInput} : StepEnd(keys)
  \/ Cancel
  \/ Pause
  \/ Resume

Spec == Init /\ [][Next]_vars

(***************************************************************************)
(* Fairness.  The worker thread keeps running: every segment of run() that *)
(* can execute eventually does.  The pause loop polls every 0.5 s, so it   *)
(* sees a flag that is clear again and again.                              *)
(***************************************************************************)
LoopFairness ==
  /\ WF_vars(RunStart)
  /\ WF_vars(LoopTop)
  /\ SF_vars(PauseWait)
  /\ WF_vars(CancelCheck)
  /\ WF_vars(StepBegin)
  /\ WF_vars(ModelRaise \/ \E r \in Responses : ModelReturn(r))
  /\ WF_vars(\E dev \in Devices : Dispatch(dev))
  /\ WF_vars(\E keys \in PlainInputs \cup {NoInput} : StepEnd(keys))

\* the worker is scheduled; nothing is assumed of the controlling thread
LoopFairSpec == Spec /\ LoopFairness

(***************************************************************************)
(* Runs that exercise the Task Plan: the model plans three sub-tasks and   *)
(* reports progress through task_completed and current_task_id, in any     *)
(* order; the controlling thread stays quiet and no request fails.         *)
(***************************************************************************)
TapAction == Act("Tap", [element |-> <<500, 500>>])

\* raw_content holding a JSON object with the given keys, none of them phase
ProgressMeta(data) == [json |-> TRUE, says_plan |-> FALSE, tasks_ok |-> TRUE, data |-> data]

\* {"phase": "plan", "tasks": [three tasks]}
PlanOfThree ==
  [json |-> TRUE, says_plan |-> TRUE, tasks_ok |-> TRUE,
   data |-> [phase |-> "plan",
             tasks |-> <<[id |-> 1, name |-> "open settings"], [id |-> 2, name |-> "open wifi"],
                         [id |-> 3, name |-> "go home"]>>]]

\* {"phase": "plan", "tasks": [{"id": 1}]}: t["name"] raises KeyError
PlanMissingName ==
  [json |-> TRUE, says_plan |-> TRUE, tasks_ok |-> FALSE,
   data |-> [phase |-> "plan", tasks |-> <<[id |-> 1]>>]]

\* {"phase": "plan", "tasks": 3}: iterating the value raises TypeError (the
\* value itself is not kept in the model)
PlanTasksNotList ==
  [json |-> TRUE, says_plan |-> TRUE, tasks_ok |-> FALSE,
   data |-> [phase |-> "plan", tasks |-> <<>>]]

PlanMetas ==
  { PlanOfThree,
    PlanMissingName,
    PlanTasksNotList,
    ProgressMeta([current_task_id |-> 1]),
    ProgressMeta([current_task_id |-> 2]),
    ProgressMeta([current_task_id |-> 9]),
    ProgressMeta([task_completed |-> 1]),
    ProgressMeta([task_completed |-> 1, current_task_id |-> 2]) }

PlanResponses ==
  {[action |-> IF m.says_plan THEN EmptyAction ELSE TapAction, meta |-> m,
    prompt_tokens |-> 3, completion_tokens |-> 1] : m \in PlanMetas}
  \cup {[action |-> Act("finish", [message |-> "done"]), meta |-> NoMeta,
         prompt_tokens |-> 3, completion_tokens |-> 1]}

PlanInit ==
  /\ Init
  /\ config.max_steps = MaxStepsBound
  /\ ~config.pause_on_action
  /\ ~billing_manager
  /\ ~profile

PlanNext ==
  \/ RunCall
  \/ RunStart
  \/ LoopTop
  \/ PauseWait
  \/ StepBegin
  \/ \E r \in PlanResponses : ModelReturn(r)
  \/ \E dev \in Devices : Dispatch(dev)
  \/ StepEnd(NoInput)

PlanSpec == PlanInit /\ [][PlanNext]_vars

(***************************************************************************)
(* _summarize_history on its own: applied once to a conversation of any    *)
(* shape the method provides for (with or without a leading system         *)
(* message, of any length up to the bound) and to a Task Plan.             *)
(***************************************************************************)
\* longest conversation summarized
MaxMessages == 7

Turns == {TaskMsg, AssistantMsg, FeedbackMsg(FALSE)}

Conversations ==
  LET tails == UNION {[1..n -> Turns] : n \in 0..(MaxMessages - 1)}
  IN tails \cup {<<SystemMsg>> \o t : t \in tails}

SummaryPlans ==
  { NewTaskPlan,
    [tasks |-> <<[id |-> 1, name |-> "open settings", status |-> "completed"],
                 [id |-> 2, name |-> "open wifi", status |-> "in_progress"],
                 [id |-> 3, name |-> "go home", status |-> "pending"]>>,
     current_task_id |-> 2, phase |-> "execute"] }

SummaryInit ==
  /\ config = [max_steps |-> MaxStepsBound, summarize_interval |-> 2, pause_on_action |-> FALSE,
               enable_billing |-> TRUE, action_delay |-> ActionDelay]
  /\ billing_manager = FALSE
  /\ profile = FALSE
  /\ pricing = NoPricing
  /\ _pricing_registry = EmptyRegistry
  /\ cost = NoCost
  /\ calls = <<>>
  /\ screen_size = <<1080, 2400>>
  /\ _devices = NoDevices
  /\ holders = NoHolders
  /\ pc = "summarize"
  /\ _messages \in Conversations
  /\ _step_count = 0
  /\ _total_cost = 0
  /\ _cancelled = FALSE
  /\ attrs = {"_paused", "_task_plan"}
  /\ _paused = FALSE
  /\ _task_plan \in SummaryPlans
  /\ ledger = EmptyLedger
  /\ response = NoResponse
  /\ action_result = NoResult
  /\ user_input = NoInput
  /\ progress = <<>>
  /\ step_cost = 0
  /\ emitted = <<>>
  /\ result = None
  /\ resets = 0
  /\ cancel_at = None
  /\ cancel_step = 0

\* self._summarize_history()
Summarize ==
  /\ pc = "summarize"
  /\ _messages' = SummarizeHistory(_messages, _task_plan)
  /\ pc' = "summarized"
  /\ UNCHANGED <<wiring, flags, observed, locals, _step_count, _total_cost, _task_plan, ledger, calls,
                 emitted, result, resets>>

SummarySpec == SummaryInit /\ [][Summarize]_vars

(***************************************************************************)
(* The BillingManager on its own, driven by a host that registers          *)
(* policies, records usage, asks for costs and resets in any order.  Here  *)
(* pc names the method that returned last, cost is what it returned when   *)
(* that was calculate_cost, and resets counts the reset() calls in a row.  *)
(***************************************************************************)
\* most record_usage calls between two resets
MaxCalls == 2
\* most reset() calls in a row
MaxResets == 2

\* the spec's ladder, prices in hundredths: 0-1000 at 1.00 in / 2.00 out,
\* 1000 and up at 0.50 in / 1.00 out
LadderPricing ==
  [ModelPricing("Zhipu", "glm-4v", "tiered") EXCEPT
     !.tiers = <<PriceTier(0, 1000, 100, 200), PriceTier(1000, NoLimit, 50, 100)>>]

\* vendor/model pairs the host bills; nothing is ever registered for the last
BilledModels == {<<"OpenAI", "gpt-4o">>, <<"Zhipu", "glm-4v">>, <<"Ollama", "llava:7b">>}

\* <<prompt_tokens, completion_tokens>> of a call
BilledTokens == {<<0, 0>>, <<3, 2>>, <<1500, 1>>}

BilledPolicies == {FixedPricing, LadderPricing}

agent_state ==
  <<config, billing_manager, profile, pricing, screen_size, _devices, holders, flags, observed,
    locals, _messages, _step_count,
    _total_cost, _task_plan, emitted, result>>

\* BillingManager()
BillingInit ==
  /\ config = [max_steps |-> MaxStepsBound, summarize_interval |-> 0, pause_on_action |-> FALSE,
               enable_billing |-> TRUE, action_delay |-> ActionDelay]
  /\ billing_manager = TRUE
  /\ profile = FALSE
  /\ pricing = NoPricing
  /\ _pricing_registry = EmptyRegistry
  /\ cost = NoCost
  /\ screen_size = <<1080, 2400>>
  /\ _devices = NoDevices
  /\ holders = NoHolders
  /\ pc = "__init__"
  /\ _messages = <<>>
  /\ _step_count = 0
  /\ _total_cost = 0
  /\ _cancelled = FALSE
  /\ attrs = {}
  /\ _paused = FALSE
  /\ _task_plan = NewTaskPlan
  /\ ledger = EmptyLedger
  /\ calls = <<>>
  /\ response = NoResponse
  /\ action_result = NoResult
  /\ user_input = NoInput
  /\ progress = <<>>
  /\ step_cost = 0
  /\ emitted = <<>>
  /\ result = None
  /\ resets = 0
  /\ cancel_at = None
  /\ cancel_step = 0

BillingMethods == {"__init__", "register_pricing", "record_usage", "calculate_cost", "reset"}

\* register_pricing(p)
RegisterPricingCall(p) ==
  /\ pc \in BillingMethods
  /\ _pricing_registry' = RegisterPricing(_pricing_registry, p)
  /\ pc' = "register_pricing"
  /\ cost' = NoCost
  /\ resets' = 0
  /\ UNCHANGED <<agent_state, ledger, calls>>

\* record_usage(vendor, model, prompt_tokens, completion_tokens)
RecordUsageCall(vendor, model, prompt_tokens, completion_tokens) ==
  /\ pc \in BillingMethods
  /\ Len(calls) < MaxCalls
  /\ LET found == GetPricing(_pricing_registry, vendor, model)
     IN /\ ledger' = RecordUsage(ledger, vendor, model, found, prompt_tokens, completion_tokens)
        /\ calls' = Append(calls, UsageCall(vendor, model, found, prompt_tokens, completion_tokens))
  /\ pc' = "record_usage"
  /\ cost' = NoCost
  /\ resets' = 0
  /\ UNCHANGED <<agent_state, _pricing_registry>>

\* calculate_cost(vendor, model, prompt_tokens, completion_tokens)
CalculateCostCall(vendor, model, prompt_tokens, completion_tokens) ==
  /\ pc \in BillingMethods
  /\ LET found == GetPricing(_pricing_registry, vendor, model)
     IN cost' = CostCall(vendor, model, found, prompt_tokens, completion_tokens,
                         CalculateCost(found, prompt_tokens, completion_tokens))
  /\ pc' = "calculate_cost"
  /\ resets' = 0
  /\ UNCHANGED <<agent_state, _pricing_registry, ledger, calls>>

\* the most recent record survives the reset
ResetCall_KeepsLastRecord ==
  /\ pc \in BillingMethods
  /\ resets < MaxResets
  /\ ledger' = [EmptyLedger EXCEPT
                  !._usage_records =
                    IF ledger._usage_records = <<>> THEN <<>>
                    ELSE <<ledger._usage_records[Len(ledger._usage_records)]>>]
  /\ calls' = <<>>
  /\ pc' = "reset"
  /\ cost' = NoCost
  /\ resets' = resets + 1
  /\ UNCHANGED <<agent_state, _pricing_registry>>

\* reset()
ResetCall ==
  /\ pc \in BillingMethods
  /\ resets < MaxResets
  /\ ledger' = EmptyLedger
  /\ calls' = <<>>
  /\ pc' = "reset"
  /\ cost' = NoCost
  /\ resets' = resets + 1
  /\ UNCHANGED <<agent_state, _pricing_registry>>

BillingNext ==
  \/ \E p \in BilledPolicies : RegisterPricingCall(p)
  \/ \E m \in BilledModels, t \in BilledTokens : RecordUsageCall(m[1], m[2], t[1], t[2])
  \/ \E m \in BilledModels, t \in BilledTokens : CalculateCostCall(m[1], m[2], t[1], t[2])
  \/ ResetCall

BillingSpec == BillingInit /\ [][BillingNext]_vars

(***************************************************************************)
(* calculate_cost on its own: one policy of each shape is registered (or   *)
(* none) and the cost of one pair of token counts is asked for.  Prices    *)
(* are in hundredths of the currency unit per million tokens.              *)
(***************************************************************************)
\* gpt-4o at 2.50 in / 5.00 out with 500,000 free input tokens
MeteredPricing ==
  [ModelPricing("OpenAI", "gpt-4o", "fixed") EXCEPT
     !.input_price_per_million = 250, !.output_price_per_million = 500,
     !.free_input_tokens = 500000, !.free_output_tokens = 3]

FreePricing == ModelPricing("OpenAI", "gpt-4o", "free")

TieredPricing(tiers) == [ModelPricing("Zhipu", "glm-4v", "tiered") EXCEPT !.tiers = tiers]

\* ladders: the spec's, the same declared top first, three rungs, one rung
\* that ends at 5, rungs with a gap between them, and a ladder whose first
\* rung declares max_tokens 0
Ladders ==
  { <<PriceTier(0, 1000, 100, 200), PriceTier(1000, NoLimit, 50, 100)>>,
    <<PriceTier(1000, NoLimit, 50, 100), PriceTier(0, 1000, 100, 200)>>,
    <<PriceTier(0, 2, 30, 50), PriceTier(2, 5, 20, 40), PriceTier(5, NoLimit, 10, 10)>>,
    <<PriceTier(0, 5, 30, 50)>>,
    <<PriceTier(0, 2, 30, 50), PriceTier(200, 1000, 20, 40)>>,
    <<PriceTier(0, 0, 100, 200), PriceTier(0, NoLimit, 50, 100)>> }

ComplexPricing(complex_tiers) ==
  [ModelPricing("Doubao", "doubao-vision", "tiered_complex") EXCEPT !.complex_tiers = complex_tiers]

\* the four rungs of the ComplexPriceTier docstring, the two that cover
\* input <= 32000 only, two overlapping rungs, rungs bounded on both
\* output sides, and no rung at all
ComplexLadders ==
  { <<ComplexPriceTier(0, 32000, NoLimit, 200, 80, 200),
      ComplexPriceTier(0, 32000, 201, NoLimit, 80, 400),
      ComplexPriceTier(32001, 128000, NoLimit, NoLimit, 120, 450),
      ComplexPriceTier(128001, NoLimit, NoLimit, NoLimit, 240, 500)>>,
    <<ComplexPriceTier(0, 32000, NoLimit, 200, 80, 200),
      ComplexPriceTier(0, 32000, 201, NoLimit, 80, 400)>>,
    <<ComplexPriceTier(0, NoLimit, NoLimit, NoLimit, 50, 50),
      ComplexPriceTier(0, 1000, NoLimit, NoLimit, 10, 10)>>,
    <<ComplexPriceTier(2, 1000, 1, 200, 30, 60),
      ComplexPriceTier(0, 5, 2, 3, 20, 40),
      ComplexPriceTier(1000, 32000, 0, NoLimit, 10, 10)>>,
    <<>> }

CostPolicies ==
  {FixedPricing, MeteredPricing, FreePricing}
    \cup {TieredPricing(t) : t \in Ladders}
    \cup {ComplexPricing(c) : c \in ComplexLadders}
    \cup {[ComplexPricing(<<>>) EXCEPT !.tiers = <<PriceTier(0, NoLimit, 50, 100)>>]}

CostModels ==
  {<<"OpenAI", "gpt-4o">>, <<"Zhipu", "glm-4v">>, <<"Doubao", "doubao-vision">>,
   <<"Ollama", "llava:7b">>}

CostTokens == {0, 1, 2, 3, 5, 6, 200, 201, 1000, 1500, 32000, 50000, 500000, 2000000}

\* BillingManager() followed by at most one register_pricing
CostInit ==
  /\ BillingInit!1 /\ BillingInit!2 /\ BillingInit!3 /\ BillingInit!4
  /\ _pricing_registry \in {EmptyRegistry} \cup {RegisterPricing(EmptyRegistry, p) : p \in CostPolicies}
  /\ cost = NoCost
  /\ screen_size = <<1080, 2400>>
  /\ _devices = NoDevices
  /\ holders = NoHolders
  /\ pc = IF _pricing_registry = EmptyRegistry THEN "__init__" ELSE "register_pricing"
  /\ _messages = <<>>
  /\ _step_count = 0
  /\ _total_cost = 0
  /\ _cancelled = FALSE
  /\ attrs = {}
  /\ _paused = FALSE
  /\ _task_plan = NewTaskPlan
  /\ ledger = EmptyLedger
  /\ calls = <<>>
  /\ response = NoResponse
  /\ action_result = NoResult
  /\ user_input = NoInput
  /\ progress = <<>>
  /\ step_cost = 0
  /\ emitted = <<>>
  /\ result = None
  /\ resets = 0
  /\ cancel_at = None
  /\ cancel_step = 0

\* one calculate_cost call on each manager
CostNext ==
  /\ cost = NoCost
  /\ \E m \in CostModels, prompt_tokens \in CostTokens, completion_tokens \in CostTokens :
       CalculateCostCall(m[1], m[2], prompt_tokens, completion_tokens)

CostSpec == CostInit /\ [][CostNext]_vars

(***************************************************************************)
(* One dispatch of a pointing directive, on screens of several sizes: the  *)
(* run stands at its first step with the model's response in hand.         *)
(***************************************************************************)
\* what `wm size` reports, or (1080, 1920) when it cannot be read
ScreenSizes == {<<1080, 2400>>, <<1080, 1920>>, <<720, 1280>>, <<1440, 2560>>}

PointingDirectives ==
  {Act("Tap", [element |-> <<x, y>>]) : x \in 0..1000, y \in {0, 205, 1000}}
    \cup {Act("Tap", [element |-> <<x, 1000 - x>>]) : x \in 0..1000}
    \cup {Act("Swipe", [element |-> <<x, x, 1000 - x, 1000>>]) : x \in {0, 7, 175, 205, 500, 1000}}

PointingInit ==
  /\ config = [max_steps |-> MaxStepsBound, summarize_interval |-> 0, pause_on_action |-> FALSE,
               enable_billing |-> TRUE, action_delay |-> ActionDelay]
  /\ billing_manager = FALSE
  /\ profile = FALSE
  /\ pricing = NoPricing
  /\ _pricing_registry = EmptyRegistry
  /\ cost = NoCost
  /\ screen_size \in ScreenSizes
  /\ _devices = NoDevices
  /\ holders = NoHolders
  /\ pc = "action"
  /\ _messages = <<SystemMsg, TaskMsg>>
  /\ _step_count = 1
  /\ _total_cost = 0
  /\ _cancelled = FALSE
  /\ attrs = {"_paused", "_task_plan"}
  /\ _paused = FALSE
  /\ _task_plan = NewTaskPlan
  /\ ledger = EmptyLedger
  /\ calls = <<>>
  /\ response \in {[action |-> d, meta |-> NoMeta, prompt_tokens |-> 3, completion_tokens |-> 1] :
                       d \in PointingDirectives}
  /\ action_result = NoResult
  /\ user_input = NoInput
  /\ progress = <<>>
  /\ step_cost = 0
  /\ emitted = <<>>
  /\ result = None
  /\ resets = 0
  /\ cancel_at = None
  /\ cancel_step = 0

PointingNext == \E dev \in Devices : Dispatch(dev)

PointingSpec == PointingInit /\ [][PointingNext]_vars

(***************************************************************************)
(* The DeviceManager on its own, driven by a host that scans, and by tasks *)
(* that acquire and release devices.  The bodies of acquire_device and     *)
(* release_device run under the manager's asyncio lock and contain no      *)
(* await, so each is one step; scan_devices is synchronous and takes no    *)
(* lock.  pc names the method that returned last.                          *)
(***************************************************************************)
DeviceInit ==
  /\ config = [max_steps |-> MaxStepsBound, summarize_interval |-> 0, pause_on_action |-> FALSE,
               enable_billing |-> TRUE, action_delay |-> ActionDelay]
  /\ billing_manager = FALSE
  /\ profile = FALSE
  /\ pricing = NoPricing
  /\ _pricing_registry = EmptyRegistry
  /\ cost = NoCost
  /\ screen_size = <<1080, 1920>>
  /\ _devices = NoDevices
  /\ holders = NoHolders
  /\ pc = "__init__"
  /\ _messages = <<>>
  /\ _step_count = 0
  /\ _total_cost = 0
  /\ _cancelled = FALSE
  /\ attrs = {}
  /\ _paused = FALSE
  /\ _task_plan = NewTaskPlan
  /\ ledger = EmptyLedger
  /\ calls = <<>>
  /\ response = NoResponse
  /\ action_result = NoResult
  /\ user_input = NoInput
  /\ progress = <<>>
  /\ step_cost = 0
  /\ emitted = <<>>
  /\ result = None
  /\ resets = 0
  /\ cancel_at = None
  /\ cancel_step = 0

device_rest ==
  <<config, billing_manager, profile, pricing, screen_size, _pricing_registry, cost, flags,
    observed, locals, task_state, emitted, result, resets>>

DeviceMethods == {"__init__", "scan_devices", "acquire_device", "release_device"}

\* scan_devices()
ScanDevicesCall(listed, unreadable) ==
  /\ pc \in DeviceMethods
  /\ _devices' = ScanDevices(_devices, listed, unreadable)
  /\ pc' = "scan_devices"
  /\ UNCHANGED <<holders, device_rest>>

\* await acquire_device(device_id, task_id)
AcquireDeviceCall(device_id, task_id) ==
  /\ pc \in DeviceMethods
  /\ _devices' = AcquireDevice(_devices, device_id, task_id)
  /\ holders' = IF CanAcquire(_devices, device_id)
                THEN [holders EXCEPT ![device_id] = @ \cup {task_id}]
                ELSE holders
  /\ pc' = "acquire_device"
  /\ UNCHANGED device_rest

\* await release_device(device_id)
ReleaseDeviceCall(device_id) ==
  /\ pc \in DeviceMethods
  /\ _devices' = ReleaseDevice(_devices, device_id)
  /\ holders' = [holders EXCEPT ![device_id] = {}]
  /\ pc' = "release_device"
  /\ UNCHANGED device_rest

DeviceNext ==
  \/ \E listed \in SUBSET DeviceIds : \E unreadable \in SUBSET listed :
       ScanDevicesCall(listed, unreadable)
  \/ \E d \in DeviceIds, t \in TaskIds : AcquireDeviceCall(d, t)
  \/ \E d \in DeviceIds : ReleaseDeviceCall(d)

DeviceSpec == DeviceInit /\ [][DeviceNext]_vars

(***************************************************************************)
(* One dispatch of any directive: the run stands at its first step with    *)
(* the model's response in hand, and the response carries an action.       *)
(***************************************************************************)
\* the directive with a "params" value that is no JSON object ("params": "x")
WithStringParams(d) == [d EXCEPT !.params_type = "str"]

AnyDirectives ==
  Directives
    \cup {Act(kind, NoParams) : kind \in ActionType}
    \cup {Obj({"action"}, kind, NoParams) : kind \in ActionType}
    \cup {WithStringParams(Act(kind, NoParams)) : kind \in {"finish", "pause", "Tap", "Back"}}
    \cup { Act("pause", [message |-> ""]),
           Act("Tap", [element |-> <<7, 205>>, long_press |-> TRUE]),
           Act("Swipe", [direction |-> "down"]),
           Act("Swipe", [direction |-> "around"]),
           Act("Type", [text |-> "hello"]),
           Act("TapAndType", [element |-> <<100, 900>>, text |-> "hello"]),
           Act("Launch", [app_name |-> "Nowhere"]),
           Act("finish", [message |-> "all set"]),
           Act("Tap", [element |-> <<0, 0>>]),
           Act("Tap", [element |-> <<1000, 1000>>]),
           Act("Double Tap", [element |-> <<7, 205>>]),
           Act("Long Press", [element |-> <<7, 205>>]),
           Act("Drag", [start |-> <<0, 0>>, end |-> <<1000, 1000>>]) }

DispatchInit ==
  /\ config = [max_steps |-> MaxStepsBound, summarize_interval |-> 0, pause_on_action |-> FALSE,
               enable_billing |-> TRUE, action_delay |-> ActionDelay]
  /\ billing_manager = FALSE
  /\ profile = FALSE
  /\ pricing = NoPricing
  /\ _pricing_registry = EmptyRegistry
  /\ cost = NoCost
  /\ screen_size = <<1080, 2400>>
  /\ _devices = NoDevices
  /\ holders = NoHolders
  /\ pc = "action"
  /\ _messages = <<SystemMsg, TaskMsg>>
  /\ _step_count = 1
  /\ _total_cost = 0
  /\ _cancelled = FALSE
  /\ attrs = {"_paused", "_task_plan"}
  /\ _paused = FALSE
  /\ _task_plan = NewTaskPlan
  /\ ledger = EmptyLedger
  /\ calls = <<>>
  /\ response \in {[action |-> d, meta |-> NoMeta, prompt_tokens |-> 3, completion_tokens |-> 1] :
                       d \in AnyDirectives}
  /\ action_result = NoResult
  /\ user_input = NoInput
  /\ progress = <<>>
  /\ step_cost = 0
  /\ emitted = <<>>
  /\ result = None
  /\ resets = 0
  /\ cancel_at = None
  /\ cancel_step = 0

DispatchNext == \E dev \in Devices : Dispatch(dev)

DispatchSpec == DispatchInit /\ [][DispatchNext]_vars

(***************************************************************************)
(* Long runs: up to MaxHistorySteps steps of taps that succeed or fail,    *)
(* ended by a finish or by the step limit, with the history summarized     *)
(* every step or every second step; no billing, no operator, the           *)
(* controlling thread stays quiet.                                         *)
(***************************************************************************)
\* steps of the longest run
MaxHistorySteps == 5

HistoryResponses ==
  {[action |-> d, meta |-> NoMeta, prompt_tokens |-> 3, completion_tokens |-> 1] :
     d \in {TapAction, Act("finish", [message |-> "done"])}}

\* AgentConfig(max_steps=MaxHistorySteps, summarize_interval=N)
HistoryConfigs ==
  {[max_steps |-> MaxHistorySteps, summarize_interval |-> N, pause_on_action |-> FALSE,
    enable_billing |-> TRUE, action_delay |-> ActionDelay] : N \in {1, 2}}

HistoryInit ==
  /\ config \in HistoryConfigs
  /\ billing_manager = FALSE
  /\ profile = FALSE
  /\ _pricing_registry = EmptyRegistry
  /\ pricing = NoPricing
  /\ cost = NoCost
  /\ calls = <<>>
  /\ screen_size = <<1080, 2400>>
  /\ _devices = NoDevices
  /\ holders = NoHolders
  /\ pc = "idle"
  /\ _messages = <<>>
  /\ _step_count = 0
  /\ _total_cost = 0
  /\ _cancelled = FALSE
  /\ attrs = {}
  /\ _paused = FALSE
  /\ _task_plan = NewTaskPlan
  /\ ledger = EmptyLedger
  /\ response = NoResponse
  /\ action_result = NoResult
  /\ user_input = NoInput
  /\ progress = <<>>
  /\ step_cost = 0
  /\ emitted = <<>>
  /\ result = None
  /\ resets = 0
  /\ cancel_at = None
  /\ cancel_step = 0

HistoryNext ==
  \/ RunCall
  \/ RunStart
  \/ LoopTop
  \/ PauseWait
  \/ StepBegin
  \/ \E r \in HistoryResponses : ModelReturn(r)
  \/ \E dev \in Devices : Dispatch(dev)
  \/ StepEnd(NoInput)

HistorySpec == HistoryInit /\ [][HistoryNext]_vars

(***************************************************************************)
(* TapAndType on its own: the first step of a run dispatches a TapAndType  *)
(* directive to a device on which any of the primitives it uses may fail.  *)
(***************************************************************************)
\* the first step of a run holds one of the responses and is about to
\* dispatch its action
AtDispatch(responses) ==
  /\ config = [max_steps |-> MaxStepsBound, summarize_interval |-> 0, pause_on_action |-> FALSE,
               enable_billing |-> TRUE, action_delay |-> ActionDelay]
  /\ billing_manager = FALSE
  /\ profile = FALSE
  /\ pricing = NoPricing
  /\ _pricing_registry = EmptyRegistry
  /\ cost = NoCost
  /\ screen_size = <<1080, 2400>>
  /\ _devices = NoDevices
  /\ holders = NoHolders
  /\ pc = "action"
  /\ _messages = <<SystemMsg, TaskMsg>>
  /\ _step_count = 1
  /\ _total_cost = 0
  /\ _cancelled = FALSE
  /\ attrs = {"_paused", "_task_plan"}
  /\ _paused = FALSE
  /\ _task_plan = NewTaskPlan
  /\ ledger = EmptyLedger
  /\ calls = <<>>
  /\ response \in responses
  /\ action_result = NoResult
  /\ user_input = NoInput
  /\ progress = <<>>
  /\ step_cost = 0
  /\ emitted = <<>>
  /\ result = None
  /\ resets = 0
  /\ cancel_at = None
  /\ cancel_step = 0

TypingDirectives ==
  {Act("TapAndType", [element |-> <<x, 500>>, text |-> t, clear |-> c]) :
     x \in {0, 100, 250, 400, 500, 600, 750, 1000}, t \in {"", "hello"}, c \in BOOLEAN}
  \cup {Act("TapAndType", [text |-> "hello"]), Act("TapAndType", NoParams)}

\* devices on which any subset of the primitives TapAndType uses fails
TypingDevices ==
  {[fail |-> f, search |-> None, screen_size |-> <<1080, 2400>>] :
     f \in SUBSET {"tap", "press_key", "input_text_adbime", "input_text"}}

TypingInit ==
  AtDispatch({[action |-> d, meta |-> NoMeta, prompt_tokens |-> 3, completion_tokens |-> 1] :
                d \in TypingDirectives})

TypingNext == \E dev \in TypingDevices : Dispatch(dev)

TypingSpec == TypingInit /\ [][TypingNext]_vars

(***************************************************************************)
(* The operator prompt: the first step of a run has its response, with     *)
(* operator-intervention mode on or off; the action is dispatched, the     *)
(* operator types anything the prompt provides for (or the input ends, or  *)
(* is interrupted) and the loop goes on to the next step's request.        *)
(***************************************************************************)
PromptedDirectives ==
  { TapAction,
    Act("Launch", [app |-> "Notes"]),
    Act("Home", NoParams),
    Act("Wait", NoParams),
    Text("malformed", "tap the button"),
    Obj({"params"}, "", NoParams),
    Act("finish", [message |-> "all done"]),
    Act("finish", NoParams),
    Act("pause", [message |-> "need login"]) }

PromptedResponses ==
  {[action |-> d, meta |-> NoMeta, prompt_tokens |-> 3, completion_tokens |-> 1] :
     d \in PromptedDirectives}
  \cup {[action |-> EmptyAction, meta |-> PlanMeta, prompt_tokens |-> 3, completion_tokens |-> 1]}

OperatorInit ==
  /\ config \in {c \in Configs : c.max_steps = MaxStepsBound /\ c.summarize_interval = 0
                                  /\ c.enable_billing}
  /\ billing_manager = FALSE
  /\ profile = FALSE
  /\ pricing = NoPricing
  /\ _pricing_registry = EmptyRegistry
  /\ cost = NoCost
  /\ screen_size = <<1080, 2400>>
  /\ _devices = NoDevices
  /\ holders = NoHolders
  /\ pc = "action"
  /\ _messages = <<SystemMsg, TaskMsg>>
  /\ _step_count = 1
  /\ _total_cost = 0
  /\ _cancelled = FALSE
  /\ attrs = {"_paused", "_task_plan"}
  /\ _paused = FALSE
  /\ response \in PromptedResponses
  /\ _task_plan = ApplyMeta(NewTaskPlan, response.meta)
  /\ ledger = EmptyLedger
  /\ calls = <<>>
  /\ action_result = NoResult
  /\ user_input = NoInput
  /\ progress = <<>>
  /\ step_cost = 0
  /\ emitted = <<>>
  /\ result = None
  /\ resets = 0
  /\ cancel_at = None
  /\ cancel_step = 0

OperatorNext ==
  \/ \E dev \in Devices : Dispatch(dev)
  \/ \E keys \in OperatorInputs \cup {NoInput} : StepEnd(keys)
  \/ LoopTop
  \/ PauseWait
  \/ StepBegin

OperatorSpec == OperatorInit /\ [][OperatorNext]_vars

(***************************************************************************)
(* Properties                                                              *)
(***************************************************************************)
Last(seq) == seq[Len(seq)]

\* no StepResult of the run but possibly the last is finished
OnlyLastFinished(rs) == \A i \in 1..Len(rs) - 1 : ~rs[i].finished

C2_NoStepWhilePaused ==
  [][(pc # "model" /\ pc' = "model") => ~_paused]_vars

\* C2 (amended): the loop leaves its pause wait only when the flag is clear
\* or the task cancelled; a step begins only after the pause check of its
\* iteration was passed; and a pause() or resume() that arrives after that
\* check -- before the step starts or while it is in flight -- changes the
\* flag only: the step's model call, action and results are untouched and
\* the flag is acted on at the next iteration's wait.
C2_PauseGate ==
  [][ /\ (pc = "spin" /\ pc' # "spin") => (pc' = "chk2" /\ (~_paused \/ _cancelled))
      /\ (pc # "model" /\ pc' = "model") => (pc = "chk2" /\ ~_cancelled)
      /\ (pc \in InFlight \cup {"chk2"} /\ _paused' # _paused /\ ~_cancelled') =>
           UNCHANGED <<pc, locals, task_state, emitted, result>> ]_vars

\* the loop waits at the iteration boundary after its first step, flag set
C2_Witness ==
  /\ pc = "spin"
  /\ _paused
  /\ ~_cancelled
  /\ _step_count = 1
  /\ Len(emitted) = 1

\* C3: the steps executed never exceed max_steps; a run that used up
\* max_steps steps without a terminal outcome returns the step-limit status;
\* with max_steps <= 0 that status is returned and no step is executed.
C3_StepLimit ==
  /\ _step_count <= Max(0, config.max_steps)
  /\ Len(emitted) <= _step_count
  /\ (pc = "returned" /\ _step_count >= config.max_steps /\ \A i \in 1..Len(emitted) : ~emitted[i].finished)
       => result = StepLimitReached
  /\ (pc = "returned" /\ config.max_steps <= 0)
       => (result = StepLimitReached /\ _step_count = 0 /\ emitted = <<>>)

C3_Witness ==
  /\ pc = "returned"
  /\ config.max_steps = 2
  /\ _step_count = 2
  /\ Len(emitted) = 2
  /\ cancel_at = None
  /\ result = StepLimitReached

\* the directive is a finish directive
IsFinish(d) == d.json = "object" /\ "action" \in d.keys /\ d.action = "finish"

\* C4 (as stated): the step whose response carries finish ends the run with
\* that directive's message, after exactly as many StepResults as model
\* calls, only the last of them finished.
C4_FinishReturnsDirectiveMessage ==
  [][(pc = "settle" /\ IsFinish(response.action) /\ pc' # "settle") =>
       /\ pc' = "returned"
       /\ result' = Get(response.action.params, "message", TaskDone)
       /\ Len(emitted') = _step_count
       /\ Last(emitted').finished
       /\ OnlyLastFinished(emitted')]_vars

\* C4 (amended): ... with that directive's message, or the default
\* completion message when the directive's message is absent or empty.
C4_FinishAtStepK ==
  [][(pc = "settle" /\ IsFinish(response.action) /\ pc' # "settle") =>
       /\ pc' = "returned"
       /\ LET m == Get(response.action.params, "message", TaskDone)
          IN result' = IF m = "" THEN TaskDone ELSE m
       /\ Len(emitted') = _step_count
       /\ Last(emitted').finished
       /\ OnlyLastFinished(emitted')]_vars

\* launch, home, finish("done"): three steps, the third finished
C4_Witness ==
  /\ pc = "returned"
  /\ result = "done"
  /\ _step_count = 3
  /\ Len(emitted) = 3
  /\ emitted[1] = [success |-> TRUE, finished |-> FALSE]
  /\ emitted[2] = [success |-> TRUE, finished |-> FALSE]
  /\ emitted[3] = [success |-> TRUE, finished |-> TRUE]

\* C5: when no model request raises, run() returns a status string: it ends
\* with an exception only where the model request itself raised.
C5_RunReturnsStatus ==
  [][(pc # "raised" /\ pc' = "raised") => pc = "model"]_vars

\* C6: a cancel() that arrives while the loop waits in the pause loop ends
\* the wait; run() returns the task-cancelled status and executes no step
\* after it, whether or not resume() is ever called.
C6_CancelWhilePaused ==
  /\ (cancel_at = "paused") ~> (pc = "returned" /\ result = TaskCancelled)
  /\ [](cancel_at = "paused" =>
          /\ _step_count = cancel_step
          /\ pc \in {"spin", "chk2", "returned"}
          /\ pc = "returned" => result = TaskCancelled)

C6_Witness ==
  /\ cancel_at = "paused"
  /\ pc = "returned"
  /\ result = TaskCancelled
  /\ cancel_step = 1
  /\ Len(emitted) = 1

\* C7: run() starts from fresh state whatever the earlier run left: the
\* conversation holds only the system prompt and the task, step count and
\* cost are zero, both flags clear, the Task Plan new, the ledger empty;
\* the ledger's reset() is called once per run.
C7_FreshRun ==
  /\ [][(pc = "invoked" /\ pc' # "invoked") =>
          /\ _messages' = <<SystemMsg, TaskMsg>>
          /\ _step_count' = 0
          /\ _total_cost' = 0
          /\ ~_cancelled'
          /\ ~_paused'
          /\ _task_plan' = NewTaskPlan
          /\ billing_manager => (ledger' = EmptyLedger /\ resets' = 1)]_vars
  /\ [](pc \notin {"idle", "invoked"} => resets = IF billing_manager THEN 1 ELSE 0)

\* a run is invoked after one that finished with a plan, records and a cancel
C7_Witness ==
  /\ pc = "invoked"
  /\ _step_count = 2
  /\ Len(_messages) > 2
  /\ _total_cost > 0
  /\ _cancelled
  /\ _task_plan.tasks # <<>>
  /\ ledger._usage_records # <<>>

\* the directive is one of execute()'s parse failures: text that is not
\* JSON, an object without (or with an empty) action, an unknown kind
ParseFailure(d) ==
  \/ d.json = "malformed"
  \/ d.json = "object" /\ ("action" \notin d.keys \/ d.action = "")
  \/ d.json = "object" /\ d.action \notin ActionType

\* C8: execute on a parse failure returns success=false, should_finish=false
\* and a diagnostic, calls no device operation and does not raise.
C8_ParseFailure ==
  [][(pc = "action" /\ ~IsPlanPhase(response) /\ ParseFailure(response.action) /\ pc' # "action") =>
       /\ pc' = "settle"
       /\ ~action_result'.success
       /\ ~action_result'.should_finish
       /\ action_result'.message \notin {None, ""}
       /\ action_result'.calls = <<>>]_vars

C8_Witness ==
  /\ pc = "settle"
  /\ response.action.action = "Fly"
  /\ ~action_result.success
  /\ action_result.message = "unknown action type: Fly"

\* C9 (as stated): a step whose outcome has success=false is not terminal:
\* the failure feedback is appended and the loop goes on.
C9_FailureContinues ==
  [][(pc = "settle" /\ ~action_result.success /\ pc' # "settle") =>
       /\ pc' = "top"
       /\ Last(_messages') = FeedbackMsg(FALSE)
       /\ ~Last(emitted').finished]_vars

\* C9 (amended): ... unless operator-intervention mode is on and the
\* operator stops the task at that step's prompt, which ends the run with
\* the operator-stop message.
C9_FailureIsNonTerminal ==
  [][(pc = "settle" /\ ~action_result.success /\ pc' # "settle") =>
       /\ ~action_result.should_finish
       /\ \/ /\ pc' = "top"
             /\ Last(_messages') = FeedbackMsg(FALSE)
             /\ ~Last(emitted').finished
          \/ /\ config.pause_on_action
             /\ pc' = "returned"
             /\ result' = UserStopped
             /\ Last(_messages') = AssistantMsg]_vars

\* a launch by a name no package is found for failed; the loop is at the
\* second step's model call
C9_Witness ==
  /\ pc = "model"
  /\ _step_count = 2
  /\ Last(_messages) = FeedbackMsg(FALSE)
  /\ emitted = <<[success |-> FALSE, finished |-> FALSE]>>

\* C10: when the model request raises, run() ends with the exception; the
\* step left no usage record, no message, no action outcome and no
\* StepResult, and nothing of the run executes after it.
C10_ModelRaises ==
  [][ /\ (pc = "model" /\ pc' = "raised") =>
           UNCHANGED <<ledger, _messages, emitted, locals, _task_plan, _total_cost, result>>
      /\ pc = "raised" => pc' \in {"raised", "invoked"} ]_vars

\* the second step's request raised: one record, one StepResult, the first
\* step's two messages
C10_Witness ==
  /\ pc = "raised"
  /\ billing_manager /\ profile
  /\ _step_count = 2
  /\ Len(ledger._usage_records) = 1
  /\ Len(emitted) = 1
  /\ Len(_messages) = 4

\* the sub-tasks of the Task Plan that are in progress
InProgress(plan) == {i \in 1..Len(plan.tasks) : plan.tasks[i].status = "in_progress"}

\* C11: in every state of a run at most one SubTask of the Task Plan is in
\* progress.
C11_AtMostOneInProgress == Cardinality(InProgress(_task_plan)) <= 1

\* C12: in every state of a run current_task_id is unset or the id of a
\* SubTask of the plan.
C12_CurrentTaskExists ==
  \/ _task_plan.current_task_id = NoTaskId
  \/ \E i \in 1..Len(_task_plan.tasks) : _task_plan.tasks[i].id = _task_plan.current_task_id

\* the step that ends here is one after which run() summarizes, and the
\* conversation is long enough for a summary to be built
SummaryBuilt ==
  /\ pc = "settle" /\ pc' = "top"
  /\ config.summarize_interval > 0
  /\ _step_count % config.summarize_interval = 0
  /\ Len(_messages) >= 4

\* C13: a summary message lists every SubTask that is not completed by name
\* in its to-do section and every completed SubTask in its completed
\* section; none is dropped, whatever their number.
C13_SummaryListsTasks ==
  [][SummaryBuilt =>
       LET ts == _task_plan.tasks
           m == _messages'[2]
       IN /\ m.kind = "summary"
          /\ \A i \in 1..Len(ts) : ts[i].status # "completed" =>
                \E j \in 1..Len(m.body.pending) :
                  m.body.pending[j] = [id |-> ts[i].id, name |-> ts[i].name]
          /\ \A i \in 1..Len(ts) : ts[i].status = "completed" =>
                \E j \in 1..Len(m.body.completed) : m.body.completed[j] = ts[i].name
          /\ Len(m.body.pending) + Len(m.body.completed) = Len(ts)]_vars

\* a plan of three, none completed and one in progress, was summarized
C13_Witness ==
  /\ pc = "top"
  /\ _step_count = 2
  /\ Len(_messages) = 6
  /\ _messages[2].kind = "summary"
  /\ Len(_messages[2].body.pending) = 3
  /\ InProgress(_task_plan) # {}

\* C14: with at least one message between the leading system message and
\* the last 4, summarization puts one summary message in the place of
\* exactly those and keeps the system message first and the last 4 as they
\* were, in order; otherwise it leaves the conversation unchanged.
C14_SummaryKeepsEnds ==
  [][(pc = "summarize" /\ pc' = "summarized") =>
       LET n == Len(_messages)
           lead == IF n > 0 /\ _messages[1].role = "system" THEN 1 ELSE 0
           middle == n - 4 - lead
       IN IF n > 3 /\ middle >= 1
          THEN /\ Len(_messages') = lead + 5
               /\ lead = 1 => _messages'[1] = _messages[1]
               /\ _messages'[lead + 1].role = "user"
               /\ _messages'[lead + 1].kind = "summary"
               /\ _messages'[lead + 1].body.compressed = middle
               /\ \A i \in 1..4 : _messages'[lead + 1 + i] = _messages[n - 4 + i]
          ELSE _messages' = _messages]_vars

\* seven messages behind a system prompt became system, summary, last four
C14_Witness ==
  /\ pc = "summarized"
  /\ Len(_messages) = 6
  /\ _messages[1] = SystemMsg
  /\ _messages[2].kind = "summary"
  /\ _messages[2].body.compressed = 2
  /\ _messages[3] = AssistantMsg

\* C15: under a TieredComplex policy with tiers, calculate_cost bills the
\* whole prompt and completion counts at the flat rates of the first tier,
\* in declaration order, whose input bounds contain prompt_tokens and whose
\* output bounds, where present, contain completion_tokens, and at the
\* rates of the last declared tier when no tier matches.
C15_ComplexTierSelection ==
  (cost.pricing.pricing_type = "tiered_complex" /\ cost.pricing.complex_tiers # <<>>) =>
    LET tiers == cost.pricing.complex_tiers
        p == cost.prompt_tokens
        c == cost.completion_tokens
        Contains(t) == /\ t.input_min <= p
                       /\ t.input_max = NoLimit \/ p <= t.input_max
                       /\ t.output_min = NoLimit \/ t.output_min <= c
                       /\ t.output_max = NoLimit \/ c <= t.output_max
        selected == IF \E i \in 1..Len(tiers) : Contains(tiers[i])
                    THEN tiers[CHOOSE i \in 1..Len(tiers) :
                                 /\ Contains(tiers[i])
                                 /\ \A j \in 1..(i - 1) : ~Contains(tiers[j])]
                    ELSE tiers[Len(tiers)]
    IN cost.returned = <<p * selected.input_price, c * selected.output_price,
                         p * selected.input_price + c * selected.output_price>>

\* 50000 prompt tokens against tiers that cover input <= 32000 only were
\* billed at the last tier's rates
C15_Witness ==
  /\ pc = "calculate_cost"
  /\ cost.pricing.pricing_type = "tiered_complex"
  /\ Len(cost.pricing.complex_tiers) = 2
  /\ cost.pricing.complex_tiers[1].input_max = 32000
  /\ cost.pricing.complex_tiers[2].input_max = 32000
  /\ cost.prompt_tokens = 50000
  /\ cost.completion_tokens = 5
  /\ cost.returned = <<50000 * 80, 5 * 400, 50000 * 80 + 5 * 400>>

\* C16: under a Tiered policy calculate_cost walks the tiers by ascending
\* min_tokens and bills, for prompt and completion tokens each on their
\* own, up to (tier max - tier min) of the tokens still unbilled at the
\* tier's rate, a tier with no max taking all that remain; 1500 prompt
\* tokens on the ladder 0-1000 at 1.00, 1000 and up at 0.50 are billed as
\* 1000 at 1.00 plus 500 at 0.50.
C16_TieredWalk ==
  cost.pricing.pricing_type = "tiered" =>
    LET tiers == SortedTiers(cost.pricing.tiers)
        RECURSIVE Billed(_, _, _)
        Billed(i, remaining, price) ==
          IF i > Len(tiers) THEN 0
          ELSE LET room == IF tiers[i].max_tokens = NoLimit THEN remaining
                           ELSE tiers[i].max_tokens - tiers[i].min_tokens
                   take == Max(0, Min(remaining, room))
               IN take * tiers[i][price] + Billed(i + 1, remaining - take, price)
        input_cost == Billed(1, cost.prompt_tokens, "input_price")
        output_cost == Billed(1, cost.completion_tokens, "output_price")
    IN /\ cost.returned = <<input_cost, output_cost, input_cost + output_cost>>
       /\ (/\ cost.pricing.tiers = <<PriceTier(0, 1000, 100, 200), PriceTier(1000, NoLimit, 50, 100)>>
           /\ cost.prompt_tokens = 1500)
          => cost.returned[1] = 1000 * 100 + 500 * 50

\* C20: under a Fixed policy calculate_cost bills max(0, tokens - free
\* allowance) tokens, input and output apart, each at its rate per million,
\* and the total is their sum; usage within the allowance costs zero, no
\* cost is negative, and 2,000,000 prompt tokens with 500,000 free at 2.50
\* per million cost 3.75.
C20_FixedCost ==
  cost.pricing.pricing_type = "fixed" =>
    LET policy == cost.pricing
        billable_input == IF cost.prompt_tokens > policy.free_input_tokens
                          THEN cost.prompt_tokens - policy.free_input_tokens ELSE 0
        billable_output == IF cost.completion_tokens > policy.free_output_tokens
                           THEN cost.completion_tokens - policy.free_output_tokens ELSE 0
    IN /\ cost.returned[1] = billable_input * policy.input_price_per_million
       /\ cost.returned[2] = billable_output * policy.output_price_per_million
       /\ cost.returned[3] = cost.returned[1] + cost.returned[2]
       /\ cost.prompt_tokens <= policy.free_input_tokens => cost.returned[1] = 0
       /\ cost.completion_tokens <= policy.free_output_tokens => cost.returned[2] = 0
       /\ \A i \in 1..3 : cost.returned[i] >= 0
       /\ (/\ cost.prompt_tokens = 2000000
           /\ policy.free_input_tokens = 500000
           /\ policy.input_price_per_million = 250)
          => cost.returned[1] = 375000000

\* the 3.75 of the example, with the completion within its allowance
C20_Witness ==
  /\ pc = "calculate_cost"
  /\ cost.pricing = MeteredPricing
  /\ cost.prompt_tokens = 2000000
  /\ cost.completion_tokens = 3
  /\ cost.returned = <<375000000, 0, 375000000>>

\* C17: after any record_usage calls since the last reset, the summary's
\* step_count is the number of those calls, its token and cost totals are
\* the sums over all of them whatever vendors and models they named, and
\* its provider and model are those of the most recent call.
C17_SummaryTotals ==
  LET summary == GetTaskSummary(ledger)
      billed(i) == CalculateCost(calls[i].pricing, calls[i].prompt_tokens,
                                 calls[i].completion_tokens)
      RECURSIVE TokensOf(_, _)
      TokensOf(n, field) == IF n = 0 THEN 0 ELSE TokensOf(n - 1, field) + calls[n][field]
      RECURSIVE CostOf(_, _)
      CostOf(n, part) == IF n = 0 THEN 0 ELSE CostOf(n - 1, part) + billed(n)[part]
      n == Len(calls)
  IN /\ summary.step_count = n
     /\ summary.total_prompt_tokens = TokensOf(n, "prompt_tokens")
     /\ summary.total_completion_tokens = TokensOf(n, "completion_tokens")
     /\ summary.total_input_cost = CostOf(n, 1)
     /\ summary.total_output_cost = CostOf(n, 2)
     /\ summary.total_cost = CostOf(n, 3)
     /\ n > 0 => /\ summary.provider = calls[n].vendor
                 /\ summary.model = calls[n].model

\* two billed calls for different vendors, the later one named
C17_Witness ==
  /\ pc = "record_usage"
  /\ Len(calls) = 2
  /\ calls[1].vendor = "OpenAI" /\ calls[1].pricing = FixedPricing /\ calls[1].prompt_tokens = 3
  /\ calls[2].vendor = "Zhipu" /\ calls[2].pricing = LadderPricing /\ calls[2].prompt_tokens = 1500
  /\ GetTaskSummary(ledger).provider = "Zhipu"
  /\ GetTaskSummary(ledger).total_prompt_tokens = 1503
  /\ GetTaskSummary(ledger).total_cost = (2 * 2 + 2 * 10) + (1000 * 100 + 500 * 50 + 1 * 200)

\* C18: after reset(), whatever register_pricing and record_usage calls
\* came before, the summary reports step_count 0 and every token and cost
\* total zero; a second reset() leaves the manager as the first left it.
C18_ResetClears ==
  [][pc' = "reset" =>
       LET summary == GetTaskSummary(ledger')
       IN /\ summary.step_count = 0
          /\ summary.total_prompt_tokens = 0
          /\ summary.total_completion_tokens = 0
          /\ summary.total_input_cost = 0
          /\ summary.total_output_cost = 0
          /\ summary.total_cost = 0
          /\ pc = "reset" => (ledger' = ledger /\ _pricing_registry' = _pricing_registry)]_vars

\* reset twice in a row on a manager that holds policies
C18_Witness ==
  /\ pc = "reset"
  /\ resets = 2
  /\ DOMAIN _pricing_registry = {"OpenAI:gpt-4o", "Zhipu:glm-4v"}
  /\ ledger = EmptyLedger

\* C19: for a vendor/model pair with no registered policy calculate_cost
\* and record_usage return (they do not raise) with input, output and
\* total cost zero, whatever the token counts.
C19_UnregisteredIsFree ==
  /\ cost.pricing = NoPricing => cost.returned = <<0, 0, 0>>
  /\ Len(ledger._usage_records) = Len(calls)
  /\ \A i \in 1..Len(calls) :
       calls[i].pricing = NoPricing =>
         /\ ledger._usage_records[i].input_cost = 0
         /\ ledger._usage_records[i].output_cost = 0
         /\ ledger._usage_records[i].total_cost = 0

\* a model nobody registered was billed and then priced, other models
\* being registered
C19_Witness ==
  /\ pc = "calculate_cost"
  /\ cost.vendor = "Ollama" /\ cost.model = "llava:7b" /\ cost.prompt_tokens = 1500
  /\ cost.pricing = NoPricing
  /\ _pricing_registry # EmptyRegistry
  /\ Len(calls) = 1
  /\ calls[1].vendor = "Ollama" /\ calls[1].pricing = NoPricing /\ calls[1].prompt_tokens = 3
  /\ GetTaskSummary(ledger).total_cost = 0

\* C21: for normalized (x, y) in [0,1000] x [0,1000] and every screen size
\* (W, H) the pixel the interpreter resolves is (round(x/1000*W),
\* round(y/1000*H)), either way of rounding a half; 0 maps to 0 and 1000 to
\* W (resp. H).
C21_RoundedPixels ==
  (pc = "settle" /\ action_result.success) =>
    LET e == response.action.params.element
        Near(v, dim) == {(v * dim + 500) \div 1000, (v * dim + 499) \div 1000}
        Pixels(v, w) == {<<a, b>> : a \in Near(v, screen_size[1]), b \in Near(w, screen_size[2])}
    IN IF response.action.action = "Tap"
       THEN \E c \in Pixels(e[1], e[2]) : action_result.message = "tap " \o Pt(c)
       ELSE \E c \in Pixels(e[1], e[2]), d \in Pixels(e[3], e[4]) :
              action_result.message = "swipe " \o PtTight(c) \o " -> " \o PtTight(d)

\* C22: between a successful acquire_device(d, t) and the next
\* release_device(d) every other acquire_device(d, .) returns false: at
\* most one task holds a given device at a time.
C22_OneHolder == \A d \in DeviceIds : Cardinality(holders[d]) <= 1

\* C23: the interpreter returns should_finish=true exactly for the finish
\* and pause directives, both with success=true, finish with the model's
\* completion message as it is and pause with the model's pause reason;
\* every other directive, succeeding or failing, returns
\* should_finish=false.  A directive is a JSON object that names an action
\* kind and whose params, when given, is an object.
C23_FinishAndPauseOnly ==
  [][(/\ pc = "action"
      /\ response.action.json = "object"
      /\ response.action.action \in ActionType
      /\ response.action.params_type = "dict") =>
       LET d == response.action
           said == "params" \in d.keys /\ "message" \in DOMAIN d.params
       IN /\ pc' = "settle"
          /\ action_result'.should_finish = (d.action \in {"finish", "pause"})
          /\ d.action \in {"finish", "pause"} => action_result'.success
          /\ (d.action = "finish" /\ said) => action_result'.message = d.params.message
          /\ (d.action = "pause" /\ said) =>
               action_result'.message = "[paused] " \o d.params.message]_vars

\* a pause directive ended the step with its reason
C23_Witness ==
  /\ pc = "settle"
  /\ response.action = Act("pause", [message |-> "need login"])
  /\ action_result.success
  /\ action_result.should_finish
  /\ action_result.message = "[paused] need login"

\* C24: a completed step appends the assistant's raw response and then one
\* user-role feedback message exactly when its outcome is non-terminal,
\* appends nothing else, and has appended them when its StepResult is
\* emitted (after which run() may summarize the conversation).
C24_StepAppends ==
  [][(pc = "settle" /\ pc' \in {"top", "returned"}) =>
       LET step_result == emitted'[Len(emitted')]
           appended == IF step_result.finished THEN <<AssistantMsg>>
                       ELSE <<AssistantMsg, FeedbackMsg(step_result.success)>>
           after == _messages \o appended
           due == /\ ~step_result.finished
                  /\ config.summarize_interval > 0
                  /\ _step_count % config.summarize_interval = 0
       IN /\ Len(emitted') = Len(emitted) + 1
          /\ IF due THEN _messages' = SummarizeHistory(after, _task_plan)
                    ELSE _messages' = after]_vars

\* a first step that failed left its response and one failure feedback
C24_Witness ==
  /\ pc = "top"
  /\ _step_count = 1
  /\ Len(emitted) = 1
  /\ ~emitted[1].success
  /\ _messages = <<SystemMsg, TaskMsg, AssistantMsg, FeedbackMsg(FALSE)>>

\* the response just received is a plan: its JSON object has phase "plan"
\* and a tasks array with at least one entry
PlanReceived ==
  /\ pc = "model" /\ pc' = "action"
  /\ response'.meta.json
  /\ response'.meta.tasks_ok
  /\ Get(response'.meta.data, "phase", None) = "plan"
  /\ "tasks" \in DOMAIN response'.meta.data
  /\ response'.meta.data.tasks # <<>>

\* C25: a response with phase "plan" and a tasks array replaces the tasks of
\* the Task Plan with the listed ones, makes the first task's id the
\* current_task_id and leaves the first task in progress and every other
\* task with the status the response gave it, pending by default.
C25_PlanMarksFirst ==
  [][PlanReceived =>
       LET listed == response'.meta.data.tasks
           tasks == _task_plan'.tasks
       IN /\ Len(tasks) = Len(listed)
          /\ \A i \in 1..Len(listed) :
                tasks[i].id = listed[i].id /\ tasks[i].name = listed[i].name
          /\ _task_plan'.current_task_id = listed[1].id
          /\ tasks[1].status = "in_progress"
          /\ \A i \in 2..Len(listed) :
                tasks[i].status = Get(listed[i], "status", "pending")]_vars

\* C26: a response whose planning metadata is absent or malformed leaves
\* the whole Task Plan (tasks, statuses, current_task_id, phase) as it was,
\* and the step goes on to the action.
C26_MalformedLeavesPlan ==
  [][(pc = "model" /\ pc' \in {"action", "raised"}
      /\ (~response'.meta.json \/ ~response'.meta.tasks_ok)) =>
       (pc' = "action" /\ _task_plan' = _task_plan)]_vars

\* the turn being dispatched is a pure planning turn
PlanningTurn == response.meta.says_plan /\ response.action = EmptyAction

\* C27: on a pure planning turn neither the Action Interpreter nor the
\* device is invoked and the outcome is success, not finished; on every
\* other turn the action goes to the Action Interpreter once, whose result
\* (or exception) is the turn's; either way the turn has been counted as a
\* step.
C27_PlanningTurn ==
  [][(pc = "action" /\ pc' # "action") =>
       /\ _step_count' = _step_count
       /\ _step_count = Len(emitted) + 1
       /\ IF PlanningTurn
          THEN /\ pc' = "settle"
               /\ action_result'.success /\ ~action_result'.should_finish
               /\ action_result'.calls = <<>>
               /\ action_result'.message = "plan ready"
          ELSE \E dev \in Devices :
                 LET res == Execute(response.action, dev)
                 IN IF res.raised THEN pc' = "raised"
                    ELSE pc' = "settle" /\ action_result' = res]_vars

\* the first turn of a run was a planning turn: counted, nothing dispatched
C27_Witness ==
  /\ pc = "settle"
  /\ PlanningTurn
  /\ _step_count = 1
  /\ action_result.success /\ ~action_result.should_finish
  /\ action_result.message = "plan ready"
  /\ _task_plan.phase = "execute"

\* C28: a step records usage in the Cost Ledger exactly when billing is
\* enabled in the configuration and a pricing profile is bound; with billing
\* disabled a step appends no UsageRecord and its step_cost is 0.
C28_BillingGate ==
  [][(pc = "model" /\ pc' = "action") =>
       /\ (Len(ledger'._usage_records) = Len(ledger._usage_records) + 1)
            <=> (config.enable_billing /\ profile)
       /\ ~config.enable_billing => (ledger' = ledger /\ step_cost' = 0)]_vars

\* the summary messages of a conversation
Summaries(msgs) == {i \in 1..Len(msgs) : msgs[i].kind = "summary"}

\* C29: the history is summarized after a step exactly when the step's
\* outcome is non-terminal and its step count is a positive multiple of
\* summarize_interval, once for that step (the conversation then holds the
\* system message, one summary of everything older and the last four
\* messages); an interval of 0 never summarizes.
C29_SummaryTrigger ==
  [][(pc = "settle" /\ pc' \in {"top", "returned"}) =>
       LET step_result == emitted'[Len(emitted')]
           N == config.summarize_interval
           plain == _messages \o (IF step_result.finished THEN <<AssistantMsg>>
                                  ELSE <<AssistantMsg, FeedbackMsg(step_result.success)>>)
           due == ~step_result.finished /\ N > 0 /\ _step_count > 0 /\ _step_count % N = 0
       IN /\ due => /\ _messages' # plain
                    /\ Len(_messages') = 6
                    /\ _messages'[1] = SystemMsg
                    /\ _messages'[2] = SummaryMsg(_task_plan, Len(plain) - 5)
                    /\ Summaries(_messages') = {2}
                    /\ SubSeq(_messages', 3, 6) = SubSeq(plain, Len(plain) - 3, Len(plain))
          /\ ~due => _messages' = plain
          /\ N = 0 => Summaries(_messages') = {}]_vars

\* the second step of a run with interval 2 went on and left a summary
C29_Witness ==
  /\ pc = "top"
  /\ config.summarize_interval = 2
  /\ _step_count = 2
  /\ Len(emitted) = 2
  /\ ~emitted[2].finished
  /\ Summaries(_messages) = {2}

\* the operator's input amounts to a stop: s chosen, or the input ended or
\* was interrupted at the prompt
StopTyped(keys) ==
  \/ keys[1] \in {"s", " S ", EndOfInput, Interrupt}
  \/ Len(keys) = 2 /\ keys[2] \in {EndOfInput, Interrupt}

\* C30: with operator-intervention mode on the operator is prompted after
\* every non-terminal step and after no terminal one (and never with the
\* mode off); a stop at the prompt makes the step's outcome finished with
\* no feedback message, and run() returns the operator-stop message at
\* once; any other answer leaves the outcome, the feedback and the loop as
\* they are without a prompt.
C30_OperatorPrompt ==
  [][(pc = "settle" /\ pc' # "settle") =>
       LET ar == action_result
           step_result == emitted'[Len(emitted')]
       IN /\ (user_input' # NoInput) <=> (config.pause_on_action /\ ~ar.should_finish)
          /\ Len(emitted') = Len(emitted) + 1
          /\ _step_count' = _step_count
          /\ IF user_input' # NoInput /\ StopTyped(user_input')
             THEN /\ step_result = [success |-> ar.success, finished |-> TRUE]
                  /\ _messages' = _messages \o <<AssistantMsg>>
                  /\ pc' = "returned"
                  /\ result' = UserStopped
             ELSE /\ step_result = [success |-> ar.success, finished |-> ar.should_finish]
                  /\ IF ar.should_finish
                     THEN /\ _messages' = _messages \o <<AssistantMsg>>
                          /\ pc' = "returned"
                          /\ result' = ReturnMessage(ar.message)
                     ELSE /\ _messages' = _messages \o <<AssistantMsg, FeedbackMsg(ar.success)>>
                          /\ pc' = "top"
                          /\ result' = result]_vars

\* the input ended at the prompt that followed a tap: the run is over
C30_Witness ==
  /\ pc = "returned"
  /\ config.pause_on_action
  /\ user_input = <<EndOfInput>>
  /\ result = UserStopped
  /\ emitted = <<[success |-> TRUE, finished |-> TRUE]>>
  /\ _messages = <<SystemMsg, TaskMsg, AssistantMsg>>

\* C32: TapAndType taps, then clears if asked (one move-to-end press and at
\* most 50 delete presses), then inputs the text, in that order; a failure
\* at a stage ends the sequence there with a failed result: after a failed
\* tap no key is pressed and no text is input, after a failed clearing key
\* press no text is input.
C32_TapAndTypeStages ==
  [][(pc = "action" /\ pc' = "settle") =>
       \A dev \in TypingDevices :
         (action_result' = Execute(response.action, dev)
          /\ Get(response.action.params, "text", "") # "") =>
           LET done == action_result'.calls
               clear == Get(response.action.params, "clear", FALSE)
               Inputs == {i \in 1..Len(done) : done[i] \in {"input_text_adbime", "input_text"}}
               Presses == {i \in 1..Len(done) : done[i] = "press_key"}
           IN /\ done[1] = "tap"
              /\ Cardinality(Presses) <= 51
              /\ \A i \in Presses, j \in Inputs : 1 < i /\ i < j
              /\ ~clear => Presses = {}
              /\ ~Ok(dev, "tap") =>
                   (done = <<"tap">> /\ ~action_result'.success)
              /\ (Ok(dev, "tap") /\ clear /\ ~Ok(dev, "press_key")) =>
                   (Inputs = {} /\ ~action_result'.success)]_vars

\* C34: ActionHandler.execute returns an ActionResult for every action
\* text and never raises, so dispatching a directive never ends the step
\* with an exception.
C34_ExecuteNeverRaises ==
  [][pc = "action" => (pc' = "settle" /\ ~action_result'.raised)]_vars

\* C35: a device a task acquired stays BUSY with that task as its
\* current_task_id until release_device is called for it; no other
\* operation of the DeviceManager changes its entry.
C35_BusyUntilRelease ==
  [][\A d \in DOMAIN _devices :
       (/\ _devices[d].state = "busy"
        /\ ~(pc' = "release_device" /\ holders'[d] = {})) =>
         (d \in DOMAIN _devices' /\ _devices'[d] = _devices[d])]_vars

\* the sub-tasks of the Task Plan that are completed
Completed(plan) == {i \in 1..Len(plan.tasks) : plan.tasks[i].status = "completed"}

\* C36: except where the plan is (re)initialized (a plan response, or the
\* reset at the start of a run), a SubTask that is completed stays
\* completed, so the completed count of the progress feedback never
\* decreases.
C36_CompletedStays ==
  [][(/\ pc # "invoked"
      /\ ~(pc = "model" /\ pc' = "action"
           /\ Get(response'.meta.data, "phase", None) = "plan"
           /\ "tasks" \in DOMAIN response'.meta.data)) =>
       /\ Completed(_task_plan) \subseteq Completed(_task_plan')
       /\ Cardinality(Completed(_task_plan')) >= Cardinality(Completed(_task_plan))]_vars

\* one system message, then user and assistant messages in turn, a user
\* message last
Alternating(msgs) ==
  /\ Len(msgs) >= 2
  /\ Len(msgs) % 2 = 0
  /\ msgs[1].role = "system"
  /\ \A i \in 2..Len(msgs) : msgs[i].role = IF i % 2 = 0 THEN "user" ELSE "assistant"

\* C37: when a step of a run starts (and while it is in flight) the
\* conversation is one system message followed by messages whose roles
\* alternate user, assistant, ..., ending with a user message; the step's
\* appends and the summarization keep it so.
C37_ConversationShape ==
  pc \in {"top", "spin", "chk2", "model", "action", "settle"} => Alternating(_messages)

\* the third step of a run starts on a summarized conversation
C37_Witness ==
  /\ pc = "model"
  /\ _step_count = 3
  /\ Summaries(_messages) = {2}
  /\ Len(_messages) = 6

\* C38: with summarize_interval N > 0 the conversation never holds more
\* than 2N + 6 messages, not even between a step's appends and the
\* summarization that follows them, and after a summarization that acts it
\* holds exactly 6: the system message, the summary and the last four.
C38_HistoryBound ==
  [][(pc = "settle" /\ pc' \in {"top", "returned"} /\ config.summarize_interval > 0) =>
       LET step_result == emitted'[Len(emitted')]
           plain == _messages \o (IF step_result.finished THEN <<AssistantMsg>>
                                  ELSE <<AssistantMsg, FeedbackMsg(step_result.success)>>)
       IN /\ Len(plain) <= 2 * config.summarize_interval + 6
          /\ Len(_messages') <= 2 * config.summarize_interval + 6
          /\ _messages' # plain =>
               /\ Len(_messages') = 6
               /\ _messages'[1] = SystemMsg
               /\ Summaries(_messages') = {2}
               /\ SubSeq(_messages', 3, 6) = SubSeq(plain, Len(plain) - 3, Len(plain))]_vars

\* the fourth step of a run with interval 2 brought the conversation to 10
\* messages and the second summarization took it back to 6
C38_Witness ==
  /\ pc = "top"
  /\ config.summarize_interval = 2
  /\ _step_count = 4
  /\ Len(_messages) = 6
  /\ _messages[2].body.compressed = 5

\* C39: with a billing manager and a profile bound, after every completed
\* step of a run the agent's accumulated total cost is the Cost Ledger's
\* running total cost and the ledger holds one record per step of the run.
C39_CostsAgree ==
  [][(pc = "settle" /\ pc' \in {"top", "returned"} /\ billing_manager /\ profile) =>
       /\ _total_cost' = ledger'._total_cost
       /\ Len(ledger'._usage_records) = _step_count'
       /\ Len(ledger'._usage_records) = Len(emitted')]_vars

\* two billed steps of a run are over
C39_Witness ==
  /\ pc = "top"
  /\ billing_manager /\ profile
  /\ _step_count = 2
  /\ Len(ledger._usage_records) = 2
  /\ _total_cost > 0
  /\ _total_cost = ledger._total_cost

\* C40: pause(), resume(), is_paused() and cancel() can be called in every
\* state of the agent, the state after construction included, without
\* raising; is_paused() answers with the pause flag.
C40_ControlsNeverRaise == IsPaused \in {"True", "False"}

\* C33: a cancel() that arrives at any moment after run() was invoked, the
\* window before run() executes its reset() included, is not lost: the
\* cancel flag it set is still set when run() goes on, so that the loop
\* head returns the task-cancelled status and no step begins.
C33_CancelNeverLost ==
  [][(cancel_at = "invoked" /\ pc = "invoked" /\ pc' # "invoked") =>
       (_cancelled' /\ pc' \in {"top", "returned"})]_vars

(***************************************************************************)
(* Progress updates: runs of up to two steps with and without the          *)
(* UI-settle delay                                                         *)
(***************************************************************************)
\* AgentConfig(max_steps=2, action_delay=0) and AgentConfig(max_steps=2),
\* each with and without pause_on_action
ProgressConfigs ==
  {[max_steps |-> 2, summarize_interval |-> 0, pause_on_action |-> p,
    enable_billing |-> TRUE, action_delay |-> d] : p \in BOOLEAN, d \in {0, ActionDelay}}

ProgressInit ==
  /\ config \in ProgressConfigs
  /\ billing_manager = FALSE
  /\ profile = FALSE
  /\ _pricing_registry = EmptyRegistry
  /\ pricing = NoPricing
  /\ cost = NoCost
  /\ calls = <<>>
  /\ screen_size = <<1080, 2400>>
  /\ _devices = NoDevices
  /\ holders = NoHolders
  /\ pc = "idle"
  /\ _messages = <<>>
  /\ _step_count = 0
  /\ _total_cost = 0
  /\ _cancelled = FALSE
  /\ attrs = {}
  /\ _paused = FALSE
  /\ _task_plan = NewTaskPlan
  /\ ledger = EmptyLedger
  /\ response = NoResponse
  /\ action_result = NoResult
  /\ user_input = NoInput
  /\ progress = <<>>
  /\ step_cost = 0
  /\ emitted = <<>>
  /\ result = None
  /\ resets = 0
  /\ cancel_at = None
  /\ cancel_step = 0

ProgressNext ==
  \/ RunCall
  \/ RunStart
  \/ LoopTop
  \/ PauseWait
  \/ StepBegin
  \/ ModelRaise
  \/ \E r \in Responses : ModelReturn(r)
  \/ \E dev \in Devices : Dispatch(dev)
  \/ \E keys \in PlainInputs \cup {NoInput} : StepEnd(keys)

ProgressSpec == ProgressInit /\ [][ProgressNext]_vars

\* the updates p are a thinking update, then action updates, then at most one
\* waiting update, or the beginning of such a sequence
StepProgress(p) ==
  \A i \in 1..Len(p) :
    /\ (i = 1) <=> (p[i].phase = "thinking")
    /\ p[i].phase \in {"thinking", "action", "waiting"}
    /\ p[i].phase = "waiting" => (i = Len(p) /\ i > 2)

\* C31: within each step the progress callback receives a thinking update
\* first, then the action update(s), then a waiting update only when the
\* outcome is successful and non-terminal and the UI-settle delay is positive;
\* the step's StepResult reaches the step callback after all of that step's
\* progress updates, and no update of a step is sent before the StepResults
\* of all earlier steps are out
C31_ProgressOrder ==
  [][/\ (progress' # progress /\ progress' # <<>>)
        => /\ SubSeq(progress', 1, Len(progress)) = progress
           /\ Len(progress') > Len(progress)
           /\ StepProgress(progress')
           /\ \A i \in 1..Len(progress') : progress'[i].step = _step_count
           /\ emitted' = emitted
           /\ Len(emitted) = _step_count - 1
     /\ emitted' \notin {emitted, <<>>}
        => /\ Len(emitted') = Len(emitted) + 1
           /\ Len(emitted') = _step_count
           /\ StepProgress(progress)
           /\ Len(progress) >= 2
           /\ progress[2].phase = "action"
           /\ \A i \in 1..Len(progress) : progress[i].step = _step_count
           /\ (progress[Len(progress)].phase = "waiting")
                <=> (action_result.success /\ ~action_result.should_finish
                     /\ config.action_delay > 0)]_vars

\* the second step of a run has sent its thinking, action and waiting updates
\* after the first step's StepResult went out
C31_Witness ==
  /\ pc = "settle"
  /\ _step_count = 2
  /\ Len(emitted) = 1
  /\ Len(progress) = 3
  /\ progress[3].phase = "waiting"

====
